---- MODULE Spec2Model ----
(***************************************************************************)
(* Model of blade.py (snekfx/blade-py): version canonicalisation, the tree *)
(* fingerprint and cache gate, the build that writes the TSV cache, the    *)
(* TSV cache format (write / hydrate) and the query helpers over the       *)
(* hydrated ecosystem.                                                     *)
(*                                                                         *)
(* Text is modelled as sequences of one-character strings, so that         *)
(* stripping, splitting, formatting and parsing are computed and never     *)
(* assumed.                                                                *)
(***************************************************************************)
EXTENDS Integers, Sequences, FiniteSets, TLC

VARIABLES
    \* one call of a version function: its arguments, its name, its outcome
    verA, verB, verOp, verOut,
    \* the file tree: the manifest paths present, the revision of their contents
    tree, rev,
    \* time.time(), in seconds
    now,
    \* the persisted files: deps_cache.tsv and tree_metadata.json
    cacheFile, metaFile,
    \* generate_data_cache: its position and its locals
    pc, cargo_files, start_time, buildEco, gate,
    \* what the current (or last) run did: manifests extracted, lookups issued
    extractions, lookups,
    \* history: the last finished run, whether anything happened to the tree,
    \* the clock or the persisted files since it ended, and the counts that
    \* bound the model
    prevRun, disturbed, runs, events,
    \* persisting one build: the manifests found and what the registry
    \* answers, the snapshot built, the text of deps_cache.tsv and where it
    \* comes from, the outcome of hydrate_tsv_cache and of the cache gate
    manifests, registry, snapshot, cacheText, tsvOrigin, hydrated, gateOut,
    \* get_hub_info(): the hub's manifest, or None
    hub_info,
    \* a query of a loaded ecosystem: the values of ecosystem.repos, .deps and
    \* .latest, each in the order of its dict; what get_version_conflicts
    \* returned; the outcome of a call of another query or view
    ecosystem, version_conflicts, view,
    \* one run of main(): the command, the state of the root path, what the
    \* run did and its exit status
    cli,
    \* the terminal and the ProgressSpinner of the process
    term

verVars == <<verA, verB, verOp, verOut>>
diskVars == <<cacheFile, metaFile>>
envVars == <<tree, rev, now>>
runVars == <<pc, cargo_files, start_time, buildEco, gate, extractions, lookups>>
histVars == <<prevRun, disturbed, runs, events>>
\* the variables of the specifications of single function calls
storeVars == <<manifests, registry, snapshot, cacheText, tsvOrigin, hydrated,
               gateOut, hub_info>>
queryVars == <<ecosystem, version_conflicts, view, cli, term>>
callVars == <<verA, verB, verOp, verOut, manifests, registry, snapshot,
              cacheText, tsvOrigin, hydrated, gateOut, hub_info, ecosystem,
              version_conflicts, view, cli, term>>
cacheVars == <<tree, rev, now, cacheFile, metaFile, pc, cargo_files, start_time,
               buildEco, gate, extractions, lookups, prevRun, disturbed, runs,
               events>>
vars == <<verA, verB, verOp, verOut, tree, rev, now, cacheFile, metaFile, pc,
          cargo_files, start_time, buildEco, gate, extractions, lookups,
          prevRun, disturbed, runs, events, manifests, registry, snapshot,
          cacheText, tsvOrigin, hydrated, gateOut, hub_info, ecosystem,
          version_conflicts, view, cli, term>>

(***************************************************************************)
(* Bounds of the model                                                     *)
(***************************************************************************)
\* largest value of a release component in the enumerated version strings
MaxComp == 1
\* largest number of release components in the enumerated version strings
MaxRelLen == 2
\* number of runs of generate_data_cache in one behaviour
MaxRuns == 3
\* number of events of the environment (time passing, tree changes, edits,
\* deletions of the persisted files) in one behaviour
MaxEvents == 2

(***************************************************************************)
(* Characters and text helpers (python str semantics)                      *)
(***************************************************************************)
Digits == <<"0", "1", "2", "3", "4", "5", "6", "7", "8", "9">>

IsDigit(c) == \E i \in 1..10 : Digits[i] = c

DigitVal(c) == (CHOOSE i \in 1..10 : Digits[i] = c) - 1

\* str.isspace for the characters used here: space and tab
IsSpace(c) == c \in {" ", "\t"}

RECURSIVE IntToStr(_)
\* f"{n}" for a non-negative int
IntToStr(n) ==
    IF n < 10 THEN <<Digits[n + 1]>>
    ELSE IntToStr(n \div 10) \o <<Digits[(n % 10) + 1]>>

RECURSIVE StrToIntAcc(_, _)
StrToIntAcc(s, acc) ==
    IF s = <<>> THEN acc
    ELSE StrToIntAcc(Tail(s), acc * 10 + DigitVal(Head(s)))

\* int(s) for a non-empty string of decimal digits
StrToInt(s) == StrToIntAcc(s, 0)

RECURSIVE LeadDigits(_)
\* number of leading decimal digits of s
LeadDigits(s) ==
    IF s = <<>> \/ ~IsDigit(Head(s)) THEN 0 ELSE 1 + LeadDigits(Tail(s))

\* s[n:] in python
Drop(s, n) == SubSeq(s, n + 1, Len(s))

\* s.startswith(p)
StartsWith(s, p) == Len(s) >= Len(p) /\ SubSeq(s, 1, Len(p)) = p

\* p in s (substring)
Contains(s, p) ==
    \E i \in 0..(Len(s) - Len(p)) : SubSeq(s, i + 1, i + Len(p)) = p

RECURSIVE LStrip(_, _)
\* s.lstrip(chars)
LStrip(s, chars) ==
    IF s # <<>> /\ Head(s) \in chars THEN LStrip(Tail(s), chars) ELSE s

RECURSIVE RStrip(_, _)
\* s.rstrip(chars)
RStrip(s, chars) ==
    IF s # <<>> /\ s[Len(s)] \in chars
    THEN RStrip(SubSeq(s, 1, Len(s) - 1), chars) ELSE s

\* s.strip(chars)
Strip(s, chars) == RStrip(LStrip(s, chars), chars)

RECURSIVE TakeWord(_)
\* the longest prefix of s without whitespace
TakeWord(s) ==
    IF s = <<>> \/ IsSpace(Head(s)) THEN <<>>
    ELSE <<Head(s)>> \o TakeWord(Tail(s))

\* s.split(): the whitespace-separated words of s, here the first of them;
\* <<>> stands for "no word at all" (s.split() == [])
FirstWord(s) == TakeWord(LStrip(s, {" ", "\t"}))

RECURSIVE JoinDots(_)
\* ".".join(str(c) for c in release)
JoinDots(release) ==
    IF Len(release) = 1 THEN IntToStr(release[1])
    ELSE IntToStr(release[1]) \o <<".">> \o JoinDots(Tail(release))

(***************************************************************************)
(* packaging.version: the part of PEP 440 the inputs of the model use:     *)
(*   v? N(.N)* ([-.]? rc N?)?                                              *)
(***************************************************************************)
NoVersion == [tag |-> "None", release |-> <<>>, pre |-> <<>>]
RaisedIndexError == [tag |-> "IndexError", release |-> <<>>, pre |-> <<>>]
MkVersion(rel, pre) == [tag |-> "Version", release |-> rel, pre |-> pre]

RECURSIVE ParseRelease(_)
\* [ok, release, rest]: the release segment N(.N)* at the head of s
ParseRelease(s) ==
    LET n == LeadDigits(s)
        num == StrToInt(SubSeq(s, 1, n))
        rest == Drop(s, n)
    IN  IF n = 0 THEN [ok |-> FALSE, release |-> <<>>, rest |-> s]
        ELSE IF StartsWith(rest, <<".">>) /\ LeadDigits(Tail(rest)) > 0
        THEN LET more == ParseRelease(Tail(rest))
             IN  [ok |-> TRUE, release |-> <<num>> \o more.release,
                  rest |-> more.rest]
        ELSE [ok |-> TRUE, release |-> <<num>>, rest |-> rest]

\* [ok, pre]: the pre-release segment, which must reach the end of s
ParsePre(s) ==
    LET t == IF s # <<>> /\ Head(s) \in {"-", "."} THEN Tail(s) ELSE s
        n == LeadDigits(Drop(t, 2))
    IN  IF s = <<>> THEN [ok |-> TRUE, pre |-> <<>>]
        ELSE IF StartsWith(t, <<"r", "c">>) /\ Len(t) = 2 + n
        THEN [ok |-> TRUE,
              pre |-> <<"rc", IF n = 0 THEN 0 ELSE StrToInt(Drop(t, 2))>>]
        ELSE [ok |-> FALSE, pre |-> <<>>]

\* packaging.version.parse(s): a Version, or InvalidVersion (tag "Invalid")
PkgParse(s) ==
    LET body == IF StartsWith(s, <<"v">>) THEN Tail(s) ELSE s
        rel == ParseRelease(body)
        pre == ParsePre(rel.rest)
    IN  IF rel.ok /\ pre.ok THEN MkVersion(rel.release, pre.pre)
        ELSE [tag |-> "Invalid", release |-> <<>>, pre |-> <<>>]

RECURSIVE TrimZeros(_)
\* packaging's _cmpkey: the release without its trailing zero components
TrimZeros(rel) ==
    IF rel # <<>> /\ rel[Len(rel)] = 0
    THEN TrimZeros(SubSeq(rel, 1, Len(rel) - 1)) ELSE rel

\* Version.__eq__
VersionEq(v, w) == TrimZeros(v.release) = TrimZeros(w.release) /\ v.pre = w.pre

\* Version.major, Version.minor
Major(v) == IF Len(v.release) >= 1 THEN v.release[1] ELSE 0
Minor(v) == IF Len(v.release) >= 2 THEN v.release[2] ELSE 0

(***************************************************************************)
(* Version utilities (blade.py, identical copies in version_utils.py)      *)
(***************************************************************************)
\* a python value passed as a version: None, or a str
PyNone == [none |-> TRUE, s |-> <<>>]
PyStr(s) == [none |-> FALSE, s |-> s]

\* bool(x) for None or a str
Truthy(x) == ~x.none /\ x.s # <<>>

\* canonicalize_version(ver_str): a Version, None, or IndexError raised by
\* .split()[0] when nothing but quotes and whitespace is left
canonicalize_version(x) ==
    IF ~Truthy(x) \/ x.s = <<"p", "a", "t", "h">>
       \/ Contains(x.s, <<"w", "o", "r", "k", "s", "p", "a", "c", "e">>)
    THEN NoVersion
    ELSE LET word == FirstWord(Strip(x.s, {"\""}))
             body == IF StartsWith(word, <<"=">>) THEN Tail(word) ELSE word
             parsed == PkgParse(body)
         IN  IF word = <<>> THEN RaisedIndexError
             ELSE IF parsed.tag = "Version" THEN parsed
             ELSE NoVersion

\* parse_version(ver_str)
parse_version(x) == canonicalize_version(x)

\* the outcome of a bool-valued function: a value, or an exception
Returned(b) == [exc |-> "none", val |-> b]
Raised(e) == [exc |-> e, val |-> FALSE]

\* versions_equal(ver1, ver2) for None or str arguments
versions_equal(a, b) ==
    LET parsed1 == canonicalize_version(a)
        parsed2 == canonicalize_version(b)
    IN  IF parsed1.tag = "IndexError" \/ parsed2.tag = "IndexError"
        THEN Raised("IndexError")
        ELSE IF parsed1.tag = "None" \/ parsed2.tag = "None"
        THEN Returned(parsed1.tag = parsed2.tag)
        ELSE Returned(VersionEq(parsed1, parsed2))

\* is_breaking_change(from_version, to_version) for None or str arguments
is_breaking_change(from, to) ==
    IF ~Truthy(from) \/ ~Truthy(to) THEN Returned(FALSE)
    ELSE LET from_ver == parse_version(from)
             to_ver == parse_version(to)
         IN  IF from_ver.tag = "IndexError" \/ to_ver.tag = "IndexError"
             THEN Raised("IndexError")
             ELSE IF from_ver.tag = "None" \/ to_ver.tag = "None"
             THEN Returned(FALSE)
             ELSE IF Major(to_ver) > Major(from_ver) THEN Returned(TRUE)
             ELSE IF Major(from_ver) = 0 /\ Minor(to_ver) > Minor(from_ver)
             THEN Returned(TRUE)
             ELSE Returned(FALSE)

(***************************************************************************)
(* Inputs of the version functions                                         *)
(***************************************************************************)
Releases == UNION {[1..n -> 0..MaxComp] : n \in 1..MaxRelLen}

RcOne == <<"-", "r", "c", "1">>

ExampleVersions ==
    {JoinDots(<<0, 9, 0>>), JoinDots(<<0, 10, 0>>), JoinDots(<<1, 9, 0>>),
     JoinDots(<<1, 10, 0>>), JoinDots(<<2, 0>>), JoinDots(<<2, 0, 0>>),
     JoinDots(<<1, 0, 0>>), JoinDots(<<1, 0, 1>>),
     JoinDots(<<1, 0, 0>>) \o RcOne, JoinDots(<<1, 0>>) \o RcOne}

WrappedVersions ==
    {<<"\"">> \o JoinDots(<<1, 0>>) \o <<"\"">>,
     <<"=">> \o JoinDots(<<1, 0>>),
     <<" ">> \o JoinDots(<<1, 0>>),
     JoinDots(<<1, 0>>) \o <<" ", "x">>,
     <<"v">> \o JoinDots(<<1, 0>>),
     <<"\"", "=">> \o JoinDots(<<2, 0>>) \o <<"\"">>}

JunkStrings ==
    {<<>>, <<" ">>, <<"\"", "\"">>, <<"\"", " ", "\"">>, <<"=">>, <<"x">>,
     <<"*">>, <<"^">> \o JoinDots(<<1, 0>>), <<"1", ".", "x">>,
     <<"p", "a", "t", "h">>, <<"\"", "p", "a", "t", "h", "\"">>,
     <<"w", "o", "r", "k", "s", "p", "a", "c", "e">>,
     <<"x", ".", "w", "o", "r", "k", "s", "p", "a", "c", "e">>,
     <<"L", "O", "C", "A", "L">>, <<"g", "i", "t">>}

RawVersions ==
    {PyNone} \cup
    {PyStr(s) : s \in {JoinDots(r) : r \in Releases} \cup ExampleVersions
                      \cup WrappedVersions \cup JunkStrings}

(***************************************************************************)
(* Tree fingerprint and cache gate                                         *)
(***************************************************************************)
\* the cache lives 24 hours
CACHE_TTL == 86400
\* write_tsv_cache writes five sections
NumSections == 5
\* number of manifest paths that can exist under the root
MaxPaths == 2

\* the characters of the texts of the model, in code point order: tab,
\* newline, then printable ASCII (without the backquote)
CodePoints ==
    <<"\t", "\n", " ", "!", "\"", "#", "$", "%", "&", "'", "(", ")", "*", "+",
    ",", "-", ".", "/", "0", "1", "2", "3", "4", "5", "6", "7", "8", "9",
    ":", ";", "<", "=", ">", "?", "@", "A", "B", "C", "D", "E", "F", "G",
    "H", "I", "J", "K", "L", "M", "N", "O", "P", "Q", "R", "S", "T", "U",
    "V", "W", "X", "Y", "Z", "[", "\\", "]", "^", "_", "a", "b", "c",
    "d", "e", "f", "g", "h", "i", "j", "k", "l", "m", "n", "o", "p", "q",
    "r", "s", "t", "u", "v", "w", "x", "y", "z", "{", "|", "}", "~">>

Ord(c) == CHOOSE i \in 1..Len(CodePoints) : CodePoints[i] = c

ManifestName == <<"C", "a", "r", "g", "o", ".", "t", "o", "m", "l">>

\* str(p) of the manifests that can exist: a/b/Cargo.toml, a/Cargo.toml, ...
AllPaths ==
    <<<<"a", "/", "b", "/">> \o ManifestName,
      <<"a", "/">> \o ManifestName,
      <<"b", "/">> \o ManifestName,
      <<"b", "/", "a", "/">> \o ManifestName>>

ManifestPaths == {AllPaths[i] : i \in 1..MaxPaths}

RECURSIVE StrLess(_, _)
\* s < t for python str: lexicographic by code point
StrLess(s, t) ==
    IF t = <<>> THEN FALSE
    ELSE IF s = <<>> THEN TRUE
    ELSE IF Head(s) # Head(t) THEN Ord(Head(s)) < Ord(Head(t))
    ELSE StrLess(Tail(s), Tail(t))

RECURSIVE InsertSorted(_, _)
InsertSorted(x, sorted) ==
    IF sorted = <<>> THEN <<x>>
    ELSE IF StrLess(Head(sorted), x)
    THEN <<Head(sorted)>> \o InsertSorted(x, Tail(sorted))
    ELSE <<x>> \o sorted

RECURSIVE SortStrings(_)
\* sorted(strs)
SortStrings(strs) ==
    IF strs = <<>> THEN <<>>
    ELSE InsertSorted(Head(strs), SortStrings(Tail(strs)))

RECURSIVE HashUpdates(_)
\* the bytes fed to hasher.update(), one path after the other
HashUpdates(strs) ==
    IF strs = <<>> THEN <<>> ELSE Head(strs) \o HashUpdates(Tail(strs))

\* hashlib.md5(...).hexdigest(): MD5 is taken to be collision-free, so the
\* digest is identified with the bytes hashed
Md5Hex(bytes) == bytes

\* compute_tree_md5 as a bug would write it: the paths hashed in list order
compute_tree_md5_unsorted(files) == Md5Hex(HashUpdates(files))

\* compute_tree_md5 as a bug would write it: the contents of the manifests
\* are hashed with the paths
compute_tree_md5_with_contents(files) ==
    Md5Hex(HashUpdates(SortStrings(files)) \o <<ToString(rev)>>)

\* compute_tree_md5(cargo_files)
compute_tree_md5(files) == Md5Hex(HashUpdates(SortStrings(files)))

Range(seq) == {seq[i] : i \in 1..Len(seq)}

\* the lists a discovery of a set of files can return: any order
Orderings(S) ==
    {q \in [1..Cardinality(S) -> S] : \A i, j \in 1..Cardinality(S) :
                                          i # j => q[i] # q[j]}

\* tree_metadata.json: absent, not valid JSON ("corrupt": truncated by
\* open(.., 'w') and not yet dumped), or the dict save_tree_metadata writes
NoMeta == [state |-> "absent", tree_md5 |-> <<>>, file_count |-> 0,
           timestamp |-> 0, processing_time |-> 0]
TruncatedMeta == [NoMeta EXCEPT !.state = "corrupt"]

\* the ecosystem a build produces, by what it was extracted from
NoEco == [files |-> {}, rev |-> 0]

\* deps_cache.tsv: absent, or the sections written so far of an ecosystem
NoCache == [exists |-> FALSE, eco |-> NoEco, written |-> 0]

\* load_tree_metadata() is not None
MetaLoaded == metaFile.state = "ok"

\* should_use_cached_data as a bug would write it: the cache never expires
should_use_cached_data_no_ttl(files) ==
    /\ cacheFile.exists
    /\ MetaLoaded
    /\ compute_tree_md5(files) = metaFile.tree_md5

\* should_use_cached_data(cargo_files)
should_use_cached_data(files) ==
    IF ~cacheFile.exists THEN FALSE
    ELSE IF ~MetaLoaded THEN FALSE
    ELSE IF compute_tree_md5(files) # metaFile.tree_md5 THEN FALSE
    ELSE IF now - metaFile.timestamp > CACHE_TTL THEN FALSE
    ELSE TRUE

(***************************************************************************)
(* The build: from the manifests to the ecosystem snapshot                 *)
(***************************************************************************)
\* most manifests discovered, and most entries in a dependency table
MaxManifests == 2

\* the literal strings of the build and of the cache rows
Str ==
    [NONE |-> <<"N", "O", "N", "E">>,
     none |-> <<"n", "o", "n", "e">>,
     crate |-> <<"c", "r", "a", "t", "e">>,
     local |-> <<"l", "o", "c", "a", "l">>,
     git |-> <<"g", "i", "t">>,
     workspace |-> <<"w", "o", "r", "k", "s", "p", "a", "c", "e">>,
     unknown |-> <<"u", "n", "k", "n", "o", "w", "n">>,
     WORKSPACE |-> <<"W", "O", "R", "K", "S", "P", "A", "C", "E">>,
     LOCAL_ |-> <<"L", "O", "C", "A", "L">>,
     UNKNOWN |-> <<"U", "N", "K", "N", "O", "W", "N">>,
     OK |-> <<"O", "K">>,
     gap |-> <<"g", "a", "p">>,
     dep |-> <<"d", "e", "p">>,
     dev_dep |-> <<"d", "e", "v", "-", "d", "e", "p">>,
     false |-> <<"f", "a", "l", "s", "e">>,
     true |-> <<"t", "r", "u", "e">>,
     project |-> <<"p", "r", "o", "j", "e", "c", "t">>,
     normal |-> <<"n", "o", "r", "m", "a", "l">>,
     stable |-> <<"s", "t", "a", "b", "l", "e">>,
     unstable |-> <<"u", "n", "s", "t", "a", "b", "l", "e">>,
     pre_release |->
         <<"p", "r", "e", "-", "r", "e", "l", "e", "a",
         "s", "e">>,
     BREAKING |-> <<"B", "R", "E", "A", "K", "I", "N", "G">>,
     safe |-> <<"s", "a", "f", "e">>,
     current |-> <<"c", "u", "r", "r", "e", "n", "t">>,
     HEAD |-> <<"H", "E", "A", "D">>,
     zero |-> <<"0", ".", "0", ".", "0">>,
     UNREACHABLE |->
         <<"U", "N", "R", "E", "A", "C", "H", "A", "B",
         "L", "E">>,
     path_colon |-> <<"p", "a", "t", "h", ":">>,
     git_colon |-> <<"g", "i", "t", ":">>,
     workspace_colon |-> <<"w", "o", "r", "k", "s", "p", "a", "c", "e", ":">>,
     None |-> <<"N", "o", "n", "e">>,
     using |-> <<"u", "s", "i", "n", "g">>,
     path |-> <<"p", "a", "t", "h">>,
     outdated |-> <<"o", "u", "t", "d", "a", "t", "e", "d">>,
     hub |-> <<"h", "u", "b">>,
     ahead |-> <<"a", "h", "e", "a", "d">>,
     NA |-> <<"N", "/", "A">>,
     AUTH_REQUIRED |->
         <<"A", "U", "T", "H", "_", "R", "E", "Q", "U", "I", "R", "E", "D">>,
     NOT_FOUND |-> <<"N", "O", "T", "_", "F", "O", "U", "N", "D">>,
     TIMEOUT |-> <<"T", "I", "M", "E", "O", "U", "T">>,
     GIT_ERROR |-> <<"G", "I", "T", "_", "E", "R", "R", "O", "R">>,
     NO_VERSION |-> <<"N", "O", "_", "V", "E", "R", "S", "I", "O", "N">>,
     GIT_hash |-> <<"G", "I", "T", "#">>]

RECURSIVE JoinWith(_, _)
\* sep.join(strs)
JoinWith(strs, sep) ==
    IF strs = <<>> THEN <<>>
    ELSE IF Len(strs) = 1 THEN Head(strs)
    ELSE Head(strs) \o sep \o JoinWith(Tail(strs), sep)

RECURSIVE Flatten(_)
\* the concatenation of a list of lists
Flatten(lists) ==
    IF lists = <<>> THEN <<>> ELSE Head(lists) \o Flatten(Tail(lists))

\* v < w for packaging Versions: release segments without trailing zeros
\* compare as tuples, and a pre-release sorts before its final release
RECURSIVE TupleLess(_, _)
TupleLess(a, b) ==
    IF b = <<>> THEN FALSE
    ELSE IF a = <<>> THEN TRUE
    ELSE IF Head(a) # Head(b) THEN Head(a) < Head(b)
    ELSE TupleLess(Tail(a), Tail(b))

VersionLess(v, w) ==
    LET a == TrimZeros(v.release)
        b == TrimZeros(w.release)
    IN  IF a # b THEN TupleLess(a, b)
        ELSE IF v.pre = w.pre THEN FALSE
        ELSE IF v.pre = <<>> THEN FALSE
        ELSE IF w.pre = <<>> THEN TRUE
        ELSE v.pre[2] < w.pre[2]

\* parse_dependency_info(dep_info, cargo_path): an entry of a dependency
\* table is a version string (kind "str") or a table with a version, a path,
\* workspace = true or a git url (kind names the key that decides)
parse_dependency_info(e) ==
    LET joined == JoinWith(e.features, <<",">>)
        features == IF joined = <<>> THEN Str.NONE ELSE joined
    IN  IF e.kind = "str"
        THEN [version |-> PyStr(e.version), features |-> Str.NONE,
              source_type |-> Str.crate, source_value |-> e.version]
        ELSE IF e.kind = "version"
        THEN [version |-> PyStr(e.version), features |-> features,
              source_type |-> Str.crate, source_value |-> e.version]
        ELSE IF e.kind = "path"
        THEN [version |-> PyStr(e.version), features |-> features,
              source_type |-> Str.local, source_value |-> e.source]
        ELSE IF e.kind = "workspace"
        THEN [version |-> PyStr(Str.WORKSPACE), features |-> features,
              source_type |-> Str.workspace, source_value |-> Str.WORKSPACE]
        ELSE IF e.kind = "git"
        THEN [version |-> PyStr(Str.git), features |-> features,
              source_type |-> Str.git,
              source_value |-> e.source \o <<"#">> \o Str.HEAD]
        ELSE [version |-> PyNone, features |-> Str.NONE,
              source_type |-> Str.unknown, source_value |-> Str.NONE]

\* get_repo_info(cargo_path) is not None: the manifest loads as TOML
Loads(m) == m.loads

\* the manifests extract_repo_metadata_batch makes a repository of
RepoManifests(files) == SelectSeq(files, Loads)

\* extract_repo_metadata_batch(cargo_files, hub_info), no hub configured:
\* repo_id counts from 100 over the manifests that load
extract_repo_metadata_batch(files) ==
    LET ms == RepoManifests(files)
    IN  [i \in 1..Len(ms) |->
            [repo_id |-> 99 + i,
             repo_name |-> ms[i].name,
             path |-> ms[i].path,
             parent |-> ms[i].parent,
             last_update |-> ms[i].mtime,
             cargo_version |-> ms[i].version,
             hub_usage |-> Str.NONE,
             hub_status |-> Str.none,
             is_internal |-> IF ms[i].internal THEN Str.true ELSE Str.false,
             org |-> ms[i].org,
             group |-> ms[i].group,
             library_type |-> ms[i].library_type]]

\* the manifests extract_dependencies_batch gives a repo_id in repo_lookup:
\* those that load and do not say hub_sync = "false"
Scanned(m) == m.loads /\ ~m.hub_sync_false
ScannedManifests(files) == SelectSeq(files, Scanned)

\* the rows one dependency table of a manifest gives, dep_id not yet set
TableRows(entries, repo_id, dep_type) ==
    LET kept(e) == Truthy(parse_dependency_info(e).version)
        es == SelectSeq(entries, kept)
    IN  [i \in 1..Len(es) |->
            [dep_id |-> 0,
             repo_id |-> repo_id,
             pkg_name |-> es[i].name,
             pkg_version |-> parse_dependency_info(es[i]).version.s,
             dep_type |-> dep_type,
             features |-> parse_dependency_info(es[i]).features]]

\* extract_dependencies_batch(cargo_files): repo_id counts from 100 over the
\* scanned manifests, dep_id from 1000 over the rows in the order found
extract_dependencies_batch(files) ==
    LET ms == ScannedManifests(files)
        rows == Flatten([i \in 1..Len(ms) |->
                    TableRows(ms[i].dependencies, 99 + i, Str.dep)
                    \o TableRows(ms[i].dev_dependencies, 99 + i, Str.dev_dep)])
    IN  [i \in 1..Len(rows) |-> [rows[i] EXCEPT !.dep_id = 999 + i]]

\* the entries of all dependency tables of the manifests that load
AllEntries(files) ==
    LET ms == SelectSeq(files, Loads)
    IN  Flatten([i \in 1..Len(ms) |->
                    ms[i].dependencies \o ms[i].dev_dependencies])

RECURSIVE FirstOfEachName(_, _)
FirstOfEachName(entries, seen) ==
    IF entries = <<>> THEN <<>>
    ELSE LET e == Head(entries)
             info == parse_dependency_info(e)
         IN  IF Truthy(info.version) /\ e.name \notin seen
             THEN <<[pkg_name |-> e.name,
                     source_type |-> info.source_type,
                     source_value |-> info.source_value]>>
                  \o FirstOfEachName(Tail(entries), seen \cup {e.name})
             ELSE FirstOfEachName(Tail(entries), seen)

\* collect_unique_packages_with_sources(cargo_files): the first entry of each
\* package name decides its source
collect_unique_packages_with_sources(files) ==
    FirstOfEachName(AllEntries(files), {})

\* sorted(packages_with_sources.items()): by package name
SortedPackages(packages) ==
    LET names == SortStrings([i \in 1..Len(packages) |-> packages[i].pkg_name])
    IN  [i \in 1..Len(names) |->
            CHOOSE p \in Range(packages) : p.pkg_name = names[i]]

\* resolve_git_version(git_repo, git_ref): the version of the remote
\* manifest, 'GIT#<ref>', 'AUTH_REQUIRED', 'NOT_FOUND', 'GIT_ERROR' or
\* 'TIMEOUT' as git answers, and '0.0.0' when nothing answers
resolve_git_version(answer) == IF answer.none THEN Str.zero ELSE answer.s

\* the lookups batch_fetch_latest_versions issues for one package
LookupsFor(p, repos) ==
    IF p.source_type = Str.crate THEN {"crates.io"}
    ELSE IF /\ p.source_type = Str.git
            /\ \A i \in 1..Len(repos) : repos[i].repo_name # p.pkg_name
    THEN {"git"}
    ELSE {}

\* the hub status of a crate the hub declares, the two versions parsed;
\* "raises" when parse_version did
CompareWithHub(hub_ver, latest_ver) ==
    IF hub_ver.tag = "IndexError" \/ latest_ver.tag = "IndexError"
    THEN <<"raises">>
    ELSE IF hub_ver.tag = "Version" /\ latest_ver.tag = "Version"
    THEN IF VersionEq(hub_ver, latest_ver) THEN Str.current
         ELSE IF VersionLess(hub_ver, latest_ver) THEN Str.outdated
         ELSE Str.ahead
    ELSE Str.unknown

\* hub_version and hub_status of a package whose latest version is known
HubStatus(p, latest_version, hub) ==
    IF ~hub.none /\ p.pkg_name \in DOMAIN hub.dependencies
    THEN [hub_version |-> hub.dependencies[p.pkg_name],
          hub_status |->
              IF p.source_type = Str.crate /\ latest_version # PyStr(Str.NA)
              THEN CompareWithHub(
                       parse_version(PyStr(hub.dependencies[p.pkg_name])),
                       parse_version(latest_version))
              ELSE Str.local]
    ELSE [hub_version |-> Str.NONE, hub_status |-> Str.gap]

\* what batch_fetch_latest_versions learns about one package: its latest
\* version (python value), stable version and git status
Fetched(p, repos, answers) ==
    IF p.source_type = Str.crate
    THEN [latest |-> answers[p.pkg_name], stable |-> answers[p.pkg_name],
          git_status |-> Str.OK]
    ELSE IF p.source_type = Str.git
    THEN IF \E i \in 1..Len(repos) : repos[i].repo_name = p.pkg_name
         THEN LET r == repos[CHOOSE i \in 1..Len(repos) :
                               /\ repos[i].repo_name = p.pkg_name
                               /\ \A j \in (i + 1)..Len(repos) :
                                      repos[j].repo_name # p.pkg_name]
              IN  [latest |-> PyStr(r.cargo_version),
                   stable |-> PyStr(r.cargo_version), git_status |-> Str.OK]
         ELSE LET latest_version == resolve_git_version(answers[p.pkg_name])
              IN  [latest |-> PyStr(latest_version),
                   stable |-> PyStr(latest_version),
                   git_status |->
                       IF latest_version \in {Str.AUTH_REQUIRED, Str.NOT_FOUND,
                                              Str.TIMEOUT, Str.GIT_ERROR}
                       THEN latest_version
                       ELSE IF latest_version = Str.zero THEN Str.UNREACHABLE
                       ELSE IF StartsWith(latest_version, Str.GIT_hash)
                       THEN Str.NO_VERSION
                       ELSE Str.OK]
    ELSE IF p.source_type = Str.local
    THEN [latest |-> PyStr(Str.LOCAL_), stable |-> PyStr(Str.LOCAL_),
          git_status |-> Str.OK]
    ELSE IF p.source_type = Str.workspace
    THEN [latest |-> PyStr(Str.WORKSPACE), stable |-> PyStr(Str.WORKSPACE),
          git_status |-> Str.OK]
    ELSE [latest |-> PyStr(Str.UNKNOWN), stable |-> PyStr(Str.UNKNOWN),
          git_status |-> Str.OK]

\* str(x) of a python value that is a string or None
PyToStr(x) == IF x.none THEN Str.None ELSE x.s

\* get_hub_info() when HUB_PATH is not set or holds no manifest
NoHub == [none |-> TRUE, dependencies |-> <<>>]

\* LatestData(...) of a package, f being what was fetched and h its hub
\* version and status; pkg_id is set when the record is made
LatestDataOf(p, f, h, repos) ==
    [pkg_id |-> 0,
     pkg_name |-> p.pkg_name,
     latest_version |-> PyToStr(f.latest),
     latest_stable_version |-> PyToStr(f.stable),
     source_type |-> p.source_type,
     source_value |->
         IF /\ p.source_type = Str.git
            /\ \E j \in 1..Len(repos) : repos[j].repo_name = p.pkg_name
         THEN p.source_value \o <<" ", "(">> \o Str.LOCAL_ \o <<":", " ">>
              \o (repos[CHOOSE j \in 1..Len(repos) :
                    /\ repos[j].repo_name = p.pkg_name
                    /\ \A k \in (j + 1)..Len(repos) :
                           repos[k].repo_name # p.pkg_name]).path
              \o <<")">>
         ELSE p.source_value,
     hub_version |-> h.hub_version,
     hub_status |-> h.hub_status,
     git_status |-> f.git_status]

\* one round of the loop of batch_fetch_latest_versions, f being what was
\* fetched: whether a record is made (a crate whose lookup gave nothing gets
\* none), and the record
RoundOf(p, f, hub, repos) ==
    [kept |-> Truthy(f.latest) \/ p.source_type # Str.crate,
     data |-> LatestDataOf(p, f, HubStatus(p, f.latest, hub), repos)]

\* the rounds of the loop for the sorted packages
RoundsOf(ps, hub, repos, answers) ==
    [i \in 1..Len(ps) |->
        RoundOf(ps[i], Fetched(ps[i], repos, answers), hub, repos)]

\* the records the loop makes: pkg_id counts from 200 over the records
\* made; an exception ends the loop and what was recorded until then is
\* returned
RecordsMade(rounds) ==
    LET isKept(r) == r.kept
        kept == SelectSeq(rounds, isKept)
        raising == {i \in 1..Len(kept) :
                       kept[i].data.hub_status = <<"raises">>}
        n == IF raising = {} THEN Len(kept)
             ELSE (CHOOSE i \in raising : \A j \in raising : i <= j) - 1
    IN  [i \in 1..n |-> [kept[i].data EXCEPT !.pkg_id = 199 + i]]

\* batch_fetch_latest_versions(packages_with_sources, hub_info, repos)
batch_fetch_latest_versions(packages, hub, repos, answers) ==
    RecordsMade(RoundsOf(SortedPackages(packages), hub, repos, answers))

\* get_version_risk(ver)[0], of a string; "raises" when parse_version does
get_version_risk(s) ==
    LET parsed == parse_version(PyStr(s))
    IN  IF parsed.tag = "IndexError" THEN <<"raises">>
        ELSE IF parsed.tag # "Version" THEN Str.unknown
        ELSE IF parsed.pre # <<>> THEN Str.pre_release
        ELSE IF Major(parsed) = 0 THEN Str.unstable
        ELSE Str.stable

\* version_str.startswith(('path:', 'git:', 'workspace:'))
LocalPrefixed(s) ==
    \/ StartsWith(s, Str.path_colon)
    \/ StartsWith(s, Str.git_colon)
    \/ StartsWith(s, Str.workspace_colon)

\* get_version_stability(version_str); "raises" when parse_version does
get_version_stability(s) ==
    IF LocalPrefixed(s) THEN Str.local
    ELSE LET parsed == parse_version(PyStr(s))
         IN  IF parsed.tag = "IndexError" THEN <<"raises">>
             ELSE IF parsed.tag # "Version" THEN Str.unknown
             ELSE IF parsed.pre # <<>> THEN Str.pre_release
             ELSE IF Major(parsed) = 0 THEN Str.unstable
             ELSE Str.stable

\* determine_breaking_type(current_version, latest_version); "raises" when
\* parse_version does
determine_breaking_type(cur, latest) ==
    LET b == is_breaking_change(PyStr(cur), PyStr(latest))
        l == parse_version(PyStr(latest))
        c == parse_version(PyStr(cur))
    IN  IF b.exc # "none" THEN <<"raises">>
        ELSE IF b.val THEN Str.BREAKING
        ELSE IF l.tag = "IndexError" THEN <<"raises">>
        ELSE IF l.tag # "Version" THEN Str.unknown
        ELSE IF c.tag = "IndexError" THEN <<"raises">>
        ELSE IF c.tag # "Version" THEN Str.unknown
        ELSE IF VersionLess(c, l) THEN Str.safe
        ELSE Str.current

\* the deps generate_version_analysis finds both a repo and a latest record
\* for
Analysed(deps, repos, latest) ==
    LET found(d) == /\ \E i \in 1..Len(repos) : repos[i].repo_id = d.repo_id
                    /\ \E i \in 1..Len(latest) : latest[i].pkg_name = d.pkg_name
    IN  SelectSeq(deps, found)

\* generate_version_analysis(deps, repos, latest_versions): map_id counts
\* from 300 over the deps analysed
generate_version_analysis(deps, repos, latest) ==
    LET ds == Analysed(deps, repos, latest)
    IN  [i \in 1..Len(ds) |->
            LET l == CHOOSE x \in Range(latest) : x.pkg_name = ds[i].pkg_name
            IN  [map_id |-> 299 + i,
                 dep_id |-> ds[i].dep_id,
                 pkg_id |-> l.pkg_id,
                 repo_id |-> ds[i].repo_id,
                 version_state |-> get_version_stability(ds[i].pkg_version),
                 breaking_type |->
                     IF LocalPrefixed(ds[i].pkg_version) THEN Str.unknown
                     ELSE determine_breaking_type(ds[i].pkg_version,
                                                  l.latest_version),
                 ecosystem_status |-> Str.normal]]

\* an uncaught exception of parse_version ends the build in Phase 5
AnalysisRaises(version_maps) ==
    \E i \in 1..Len(version_maps) :
        \/ version_maps[i].version_state = <<"raises">>
        \/ version_maps[i].breaking_type = <<"raises">>

\* the snapshot Phases 2 to 5 of generate_data_cache produce
NoSnapshot == [built |-> "no", repos |-> <<>>, deps |-> <<>>, latest |-> <<>>,
               version_maps |-> <<>>]

BuildSnapshot(files, answers) ==
    LET repos == extract_repo_metadata_batch(files)
        deps == extract_dependencies_batch(files)
        packages == collect_unique_packages_with_sources(files)
        latest == batch_fetch_latest_versions(packages, NoHub, repos, answers)
        version_maps == generate_version_analysis(deps, repos, latest)
    IN  IF AnalysisRaises(version_maps)
        THEN [NoSnapshot EXCEPT !.built = "raised"]
        ELSE [built |-> "yes", repos |-> repos, deps |-> deps,
              latest |-> latest, version_maps |-> version_maps]

(***************************************************************************)
(* The TSV cache: write_tsv_cache and hydrate_tsv_cache                    *)
(***************************************************************************)

\* the section headers of deps_cache.tsv, and what they all start with
Header ==
    [AGG |->
         <<"#", "-", "-", "-", "-", "-", "-", " ", "S", "E",
         "C", "T", "I", "O", "N", " ", ":", " ", "A", "G", "G", "R", "E",
         "G", "A", "T", "I", "O", "N", " ", "M", "E", "T", "R", "I", "C",
         "S", " ", "-", "-", "-", "-", "-", "-", "-", "-", "#">>,
     REPOS |->
         <<"#", "-", "-", "-", "-", "-", "-", " ", "S", "E",
         "C", "T", "I", "O", "N", " ", ":", " ", "R", "E", "P", "O", " ",
         "L", "I", "S", "T", " ", "-", "-", "-", "-", "-", "-", "-", "-",
         "#">>,
     DEPS |->
         <<"#", "-", "-", "-", "-", "-", "-", " ", "S", "E",
         "C", "T", "I", "O", "N", " ", ":", " ", "D", "E", "P", " ", "V",
         "E", "R", "S", "I", "O", "N", "S", " ", "L", "I", "S", "T", " ",
         "-", "-", "-", "-", "-", "-", "-", "-", "#">>,
     LATEST |->
         <<"#", "-", "-", "-", "-", "-", "-", " ", "S", "E",
         "C", "T", "I", "O", "N", " ", ":", " ", "D", "E", "P", " ", "L",
         "A", "T", "E", "S", "T", " ", "L", "I", "S", "T", " ", "-", "-",
         "-", "-", "-", "-", "-", "-", "#">>,
     MAPS |->
         <<"#", "-", "-", "-", "-", "-", "-", " ", "S", "E",
         "C", "T", "I", "O", "N", " ", ":", " ", "V", "E", "R", "S", "I",
         "O", "N", " ", "M", "A", "P", " ", "L", "I", "S", "T", " ", "-",
         "-", "-", "-", "-", "-", "-", "-", "#">>,
     PREFIX |->
         <<"#", "-", "-", "-", "-", "-", "-", " ", "S", "E",
         "C", "T", "I", "O", "N", " ", ":">>]

\* the text by which a header names its section
SectionName ==
    [AGG |->
         <<"A", "G", "G", "R", "E", "G", "A", "T", "I", "O",
         "N", " ", "M", "E", "T", "R", "I", "C", "S">>,
     REPOS |-> <<"R", "E", "P", "O", " ", "L", "I", "S", "T">>,
     DEPS |->
         <<"D", "E", "P", " ", "V", "E", "R", "S", "I", "O",
         "N", "S", " ", "L", "I", "S", "T">>,
     LATEST |->
         <<"D", "E", "P", " ", "L", "A", "T", "E", "S", "T",
         " ", "L", "I", "S", "T">>,
     MAPS |->
         <<"V", "E", "R", "S", "I", "O", "N", " ", "M", "A",
         "P", " ", "L", "I", "S", "T">>]

\* the rows of column names
Columns ==
    [AGG |-> <<"K", "E", "Y", "\t", "V", "A", "L", "U", "E">>,
     REPOS |->
         <<"R", "E", "P", "O", "_", "I", "D", "\t", "R", "E",
         "P", "O", "_", "N", "A", "M", "E", "\t", "P", "A", "T", "H", "\t",
         "P", "A", "R", "E", "N", "T", "\t", "L", "A", "S", "T", "_", "U",
         "P", "D", "A", "T", "E", "\t", "C", "A", "R", "G", "O", "_", "V",
         "E", "R", "S", "I", "O", "N", "\t", "H", "U", "B", "_", "U", "S",
         "A", "G", "E", "\t", "H", "U", "B", "_", "S", "T", "A", "T", "U",
         "S", "\t", "I", "S", "_", "I", "N", "T", "E", "R", "N", "A", "L",
         "\t", "O", "R", "G", "\t", "G", "R", "O", "U", "P", "\t", "L", "I",
         "B", "R", "A", "R", "Y", "_", "T", "Y", "P", "E">>,
     DEPS |->
         <<"D", "E", "P", "_", "I", "D", "\t", "R", "E", "P",
         "O", "_", "I", "D", "\t", "P", "K", "G", "_", "N", "A", "M", "E",
         "\t", "P", "K", "G", "_", "V", "E", "R", "S", "I", "O", "N", "\t",
         "D", "E", "P", "_", "T", "Y", "P", "E", "\t", "F", "E", "A", "T",
         "U", "R", "E", "S">>,
     LATEST |->
         <<"P", "K", "G", "_", "I", "D", "\t", "P", "K", "G",
         "_", "N", "A", "M", "E", "\t", "L", "A", "T", "E", "S", "T", "_",
         "V", "E", "R", "S", "I", "O", "N", "\t", "L", "A", "T", "E", "S",
         "T", "_", "S", "T", "A", "B", "L", "E", "_", "V", "E", "R", "S",
         "I", "O", "N", "\t", "S", "O", "U", "R", "C", "E", "_", "T", "Y",
         "P", "E", "\t", "S", "O", "U", "R", "C", "E", "_", "V", "A", "L",
         "U", "E", "\t", "H", "U", "B", "_", "V", "E", "R", "S", "I", "O",
         "N", "\t", "H", "U", "B", "_", "S", "T", "A", "T", "U", "S", "\t",
         "G", "I", "T", "_", "S", "T", "A", "T", "U", "S">>,
     MAPS |->
         <<"M", "A", "P", "_", "I", "D", "\t", "D", "E", "P",
         "_", "I", "D", "\t", "P", "K", "G", "_", "I", "D", "\t", "R", "E",
         "P", "O", "_", "I", "D", "\t", "V", "E", "R", "S", "I", "O", "N",
         "_", "S", "T", "A", "T", "E", "\t", "B", "R", "E", "A", "K", "I",
         "N", "G", "_", "T", "Y", "P", "E", "\t", "E", "C", "O", "S", "Y",
         "S", "T", "E", "M", "_", "S", "T", "A", "T", "U", "S">>]

\* how a row of column names starts
ColumnPrefix ==
    [KEY |-> <<"K", "E", "Y", "\t">>,
     REPO_ID |-> <<"R", "E", "P", "O", "_", "I", "D", "\t">>,
     DEP_ID |-> <<"D", "E", "P", "_", "I", "D", "\t">>,
     PKG_ID |-> <<"P", "K", "G", "_", "I", "D", "\t">>,
     MAP_ID |-> <<"M", "A", "P", "_", "I", "D", "\t">>]

\* the keys of the aggregation metrics
MetricKey ==
    [total_repos |->
         <<"t", "o", "t", "a", "l", "_", "r", "e", "p",
         "o", "s">>,
     hub_using_repos |->
         <<"h", "u", "b", "_", "u", "s", "i", "n",
         "g", "_", "r", "e", "p", "o", "s">>,
     total_deps |-> <<"t", "o", "t", "a", "l", "_", "d", "e", "p", "s">>,
     total_packages |->
         <<"t", "o", "t", "a", "l", "_", "p", "a",
         "c", "k", "a", "g", "e", "s">>,
     git_packages |->
         <<"g", "i", "t", "_", "p", "a", "c", "k", "a",
         "g", "e", "s">>,
     local_packages |->
         <<"l", "o", "c", "a", "l", "_", "p", "a",
         "c", "k", "a", "g", "e", "s">>,
     crate_packages |->
         <<"c", "r", "a", "t", "e", "_", "p", "a",
         "c", "k", "a", "g", "e", "s">>,
     workspace_packages |->
         <<"w", "o", "r", "k", "s", "p", "a",
         "c", "e", "_", "p", "a", "c", "k", "a", "g", "e", "s">>,
     hub_current |->
         <<"h", "u", "b", "_", "c", "u", "r", "r", "e",
         "n", "t">>,
     hub_outdated |->
         <<"h", "u", "b", "_", "o", "u", "t", "d", "a",
         "t", "e", "d">>,
     hub_gap |-> <<"h", "u", "b", "_", "g", "a", "p">>,
     hub_local |-> <<"h", "u", "b", "_", "l", "o", "c", "a", "l">>,
     breaking_updates |->
         <<"b", "r", "e", "a", "k", "i", "n", "g",
         "_", "u", "p", "d", "a", "t", "e", "s">>,
     safe_updates |->
         <<"s", "a", "f", "e", "_", "u", "p", "d", "a",
         "t", "e", "s">>,
     unknown_updates |->
         <<"u", "n", "k", "n", "o", "w", "n", "_",
         "u", "p", "d", "a", "t", "e", "s">>,
     stable_versions |->
         <<"s", "t", "a", "b", "l", "e", "_", "v",
         "e", "r", "s", "i", "o", "n", "s">>,
     unstable_versions |->
         <<"u", "n", "s", "t", "a", "b", "l", "e",
         "_", "v", "e", "r", "s", "i", "o", "n", "s">>]

\* the characters str.strip() removes
Whitespace == {" ", "\t", "\n"}

\* one row of the file: the fields joined by tabs, and a newline
Row(fields) == JoinWith(fields, <<"\t">>) \o <<"\n">>

\* len([x for x in xs if test(x)])
CountWhere(xs, Test(_)) == Len(SelectSeq(xs, Test))

\* the aggregation metrics write_tsv_cache computes, in the order written
AggregationMetrics(snap) ==
    LET hubUsing(r) == r.hub_status \in {Str.using, Str.path}
        srcGit(p) == p.source_type = Str.git
        srcLocal(p) == p.source_type = Str.local
        srcCrate(p) == p.source_type = Str.crate
        srcWorkspace(p) == p.source_type = Str.workspace
        hubCurrent(p) == p.hub_status = Str.current
        hubOutdated(p) == p.hub_status = Str.outdated
        hubGap(p) == p.hub_status = Str.gap
        hubLocal(p) == p.hub_status = Str.local
        breaking(v) == v.breaking_type = Str.BREAKING
        safe(v) == v.breaking_type = Str.safe
        unknown(v) == v.breaking_type = Str.unknown
        stable(v) == v.version_state = Str.stable
        unstable(v) == v.version_state = Str.unstable
    IN  <<<<MetricKey.total_repos, Len(snap.repos)>>,
          <<MetricKey.hub_using_repos, CountWhere(snap.repos, hubUsing)>>,
          <<MetricKey.total_deps, Len(snap.deps)>>,
          <<MetricKey.total_packages, Len(snap.latest)>>,
          <<MetricKey.git_packages, CountWhere(snap.latest, srcGit)>>,
          <<MetricKey.local_packages, CountWhere(snap.latest, srcLocal)>>,
          <<MetricKey.crate_packages, CountWhere(snap.latest, srcCrate)>>,
          <<MetricKey.workspace_packages, CountWhere(snap.latest, srcWorkspace)>>,
          <<MetricKey.hub_current, CountWhere(snap.latest, hubCurrent)>>,
          <<MetricKey.hub_outdated, CountWhere(snap.latest, hubOutdated)>>,
          <<MetricKey.hub_gap, CountWhere(snap.latest, hubGap)>>,
          <<MetricKey.hub_local, CountWhere(snap.latest, hubLocal)>>,
          <<MetricKey.breaking_updates, CountWhere(snap.version_maps, breaking)>>,
          <<MetricKey.safe_updates, CountWhere(snap.version_maps, safe)>>,
          <<MetricKey.unknown_updates, CountWhere(snap.version_maps, unknown)>>,
          <<MetricKey.stable_versions, CountWhere(snap.version_maps, stable)>>,
          <<MetricKey.unstable_versions, CountWhere(snap.version_maps, unstable)>>>>

\* Section 0: AGGREGATION METRICS
SectionAggregation(snap) ==
    LET m == AggregationMetrics(snap)
    IN  Row(<<Header.AGG>>) \o Row(<<Columns.AGG>>)
        \o Flatten([i \in 1..Len(m) |-> Row(<<m[i][1], IntToStr(m[i][2])>>)])
        \o <<"\n">>

\* Section 1: REPO LIST
SectionRepos(snap) ==
    Row(<<Header.REPOS>>) \o Row(<<Columns.REPOS>>)
    \o Flatten([i \in 1..Len(snap.repos) |->
          LET r == snap.repos[i]
          IN  Row(<<IntToStr(r.repo_id), r.repo_name, r.path, r.parent,
                    IntToStr(r.last_update), r.cargo_version, r.hub_usage,
                    r.hub_status, r.is_internal, r.org, r.group,
                    r.library_type>>)])
    \o <<"\n">>

\* Section 2: DEP VERSIONS LIST
SectionDeps(snap) ==
    Row(<<Header.DEPS>>) \o Row(<<Columns.DEPS>>)
    \o Flatten([i \in 1..Len(snap.deps) |->
          LET d == snap.deps[i]
          IN  Row(<<IntToStr(d.dep_id), IntToStr(d.repo_id), d.pkg_name,
                    d.pkg_version, d.dep_type, d.features>>)])
    \o <<"\n">>

\* Section 3: DEP LATEST LIST
SectionLatest(snap) ==
    Row(<<Header.LATEST>>) \o Row(<<Columns.LATEST>>)
    \o Flatten([i \in 1..Len(snap.latest) |->
          LET p == snap.latest[i]
          IN  Row(<<IntToStr(p.pkg_id), p.pkg_name, p.latest_version,
                    p.latest_stable_version, p.source_type, p.source_value,
                    p.hub_version, p.hub_status, p.git_status>>)])
    \o <<"\n">>

\* Section 4: VERSION MAP LIST
SectionMaps(snap) ==
    Row(<<Header.MAPS>>) \o Row(<<Columns.MAPS>>)
    \o Flatten([i \in 1..Len(snap.version_maps) |->
          LET v == snap.version_maps[i]
          IN  Row(<<IntToStr(v.map_id), IntToStr(v.dep_id),
                    IntToStr(v.pkg_id), IntToStr(v.repo_id), v.version_state,
                    v.breaking_type, v.ecosystem_status>>)])

\* the text write_tsv_cache(repos, deps, latest_versions, version_maps,
\* output_file) leaves in output_file
write_tsv_cache(snap) ==
    SectionAggregation(snap) \o SectionRepos(snap) \o SectionDeps(snap)
    \o SectionLatest(snap) \o SectionMaps(snap)

\* s.split(c): the pieces of s between the occurrences of c
SplitOn(s, c) ==
    LET cuts == {i \in 1..Len(s) : s[i] = c}
        n == Cardinality(cuts)
        cut(k) == IF k = 0 THEN 0
                  ELSE IF k = n + 1 THEN Len(s) + 1
                  ELSE CHOOSE i \in cuts :
                           Cardinality({j \in cuts : j < i}) = k - 1
    IN  [k \in 1..(n + 1) |-> SubSeq(s, cut(k - 1) + 1, cut(k) - 1)]

\* int(s) succeeds: optional sign and digits, surrounding whitespace allowed
IsIntText(s) ==
    LET w == Strip(s, Whitespace)
        d == IF w # <<>> /\ Head(w) \in {"+", "-"} THEN Tail(w) ELSE w
    IN  d # <<>> /\ \A i \in 1..Len(d) : IsDigit(d[i])

\* int(s), where it succeeds
IntOfText(s) ==
    LET w == Strip(s, Whitespace)
    IN  IF Head(w) = "-" THEN 0 - StrToInt(Tail(w))
        ELSE IF Head(w) = "+" THEN StrToInt(Tail(w))
        ELSE StrToInt(w)

\* the section a header line switches to
SectionOf(line, current) ==
    IF Contains(line, SectionName.AGG) THEN "aggregation"
    ELSE IF Contains(line, SectionName.REPOS) THEN "repos"
    ELSE IF Contains(line, SectionName.DEPS) THEN "deps"
    ELSE IF Contains(line, SectionName.LATEST) THEN "latest"
    ELSE IF Contains(line, SectionName.MAPS) THEN "version_maps"
    ELSE current

\* a row of column names
IsColumnHeader(line) ==
    /\ Contains(line, <<"\t">>)
    /\ \/ StartsWith(line, ColumnPrefix.KEY)
       \/ StartsWith(line, ColumnPrefix.REPO_ID)
       \/ StartsWith(line, ColumnPrefix.DEP_ID)
       \/ StartsWith(line, ColumnPrefix.PKG_ID)
       \/ StartsWith(line, ColumnPrefix.MAP_ID)

\* parts[i] if len(parts) > i else default (i counted from 0)
PartOr(parts, i, default) == IF Len(parts) >= i + 1 THEN parts[i + 1] ELSE default

\* the branches as a loader without backward compatibility would have them:
\* a repository row needs all 12 columns and a package row all 9
Accepted_current_schema_only(section, parts) ==
    IF section = "aggregation" THEN Len(parts) >= 2
    ELSE IF section = "repos"
    THEN Len(parts) >= 12 /\ IsIntText(parts[1]) /\ IsIntText(parts[5])
    ELSE IF section = "deps"
    THEN Len(parts) >= 6 /\ IsIntText(parts[1]) /\ IsIntText(parts[2])
    ELSE IF section = "latest"
    THEN Len(parts) >= 9 /\ IsIntText(parts[1])
    ELSE IF section = "version_maps"
    THEN /\ Len(parts) >= 7
         /\ IsIntText(parts[1]) /\ IsIntText(parts[2])
         /\ IsIntText(parts[3]) /\ IsIntText(parts[4])
    ELSE FALSE

\* the branch of hydrate_tsv_cache's loop a data row takes, and whether its
\* int() conversions succeed: a row with too few columns matches no branch,
\* a row whose int() raises ValueError is skipped with a warning
Accepted(section, parts) ==
    IF section = "aggregation" THEN Len(parts) >= 2
    ELSE IF section = "repos"
    THEN Len(parts) >= 8 /\ IsIntText(parts[1]) /\ IsIntText(parts[5])
    ELSE IF section = "deps"
    THEN Len(parts) >= 6 /\ IsIntText(parts[1]) /\ IsIntText(parts[2])
    ELSE IF section = "latest"
    THEN Len(parts) >= 8 /\ IsIntText(parts[1])
    ELSE IF section = "version_maps"
    THEN /\ Len(parts) >= 7
         /\ IsIntText(parts[1]) /\ IsIntText(parts[2])
         /\ IsIntText(parts[3]) /\ IsIntText(parts[4])
    ELSE FALSE

\* RepoData(...) of a row
RepoOf(parts) ==
    [repo_id |-> IntOfText(parts[1]),
     repo_name |-> parts[2],
     path |-> parts[3],
     parent |-> parts[4],
     last_update |-> IntOfText(parts[5]),
     cargo_version |-> parts[6],
     hub_usage |-> parts[7],
     hub_status |-> parts[8],
     is_internal |-> PartOr(parts, 8, Str.false),
     org |-> PartOr(parts, 9, <<>>),
     group |-> PartOr(parts, 10, <<>>),
     library_type |-> PartOr(parts, 11, Str.project)]

\* DepData(...) of a row
DepOf(parts) ==
    [dep_id |-> IntOfText(parts[1]),
     repo_id |-> IntOfText(parts[2]),
     pkg_name |-> parts[3],
     pkg_version |-> parts[4],
     dep_type |-> parts[5],
     features |-> parts[6]]

\* LatestData(...) of a row
LatestOf(parts) ==
    [pkg_id |-> IntOfText(parts[1]),
     pkg_name |-> parts[2],
     latest_version |-> parts[3],
     latest_stable_version |-> parts[4],
     source_type |-> parts[5],
     source_value |-> parts[6],
     hub_version |-> parts[7],
     hub_status |-> parts[8],
     git_status |-> PartOr(parts, 8, Str.OK)]

\* VersionMapData(...) of a row
VersionMapOf(parts) ==
    [map_id |-> IntOfText(parts[1]),
     dep_id |-> IntOfText(parts[2]),
     pkg_id |-> IntOfText(parts[3]),
     repo_id |-> IntOfText(parts[4]),
     version_state |-> parts[5],
     breaking_type |-> parts[6],
     ecosystem_status |-> parts[7]]

\* the dict the loop of hydrate_tsv_cache has built from the rows it
\* accepted in a section, given the key and the value of each row by its
\* line number: the last row of a key is the one that stays
DictOf(keys, values) ==
    [k \in {keys[i] : i \in DOMAIN keys} |->
        values[CHOOSE i \in DOMAIN keys :
                   /\ keys[i] = k
                   /\ \A j \in DOMAIN keys : keys[j] = k => j <= i]]

\* EcosystemData after the loop of hydrate_tsv_cache over the lines of the
\* file: each line is stripped; empty lines, section headers and rows of
\* column names hold no data; a data row belongs to the section of the last
\* header above it that names one
HydrateLines(raw) ==
    LET n == Len(raw)
        lines == [i \in 1..n |-> Strip(raw[i], Whitespace)]
        isHeader(i) == StartsWith(lines[i], Header.PREFIX)
        named(i) == isHeader(i) /\ SectionOf(lines[i], "None") # "None"
        section(i) ==
            IF \E j \in 1..(i - 1) : named(j)
            THEN SectionOf(lines[CHOOSE j \in 1..(i - 1) :
                             /\ named(j)
                             /\ \A k \in (j + 1)..(i - 1) : ~named(k)], "None")
            ELSE "None"
        isRow(i) == /\ lines[i] # <<>>
                    /\ ~isHeader(i)
                    /\ ~IsColumnHeader(lines[i])
        parts == [i \in 1..n |-> SplitOn(lines[i], "\t")]
        rows(s) == {i \in 1..n : /\ isRow(i)
                                 /\ section(i) = s
                                 /\ Accepted(s, parts[i])}
        FirstInt(s) == [i \in rows(s) |-> IntOfText(parts[i][1])]
    IN  [aggregation |->
             DictOf([i \in rows("aggregation") |-> parts[i][1]],
                    [i \in rows("aggregation") |-> parts[i][2]]),
         repos |->
             DictOf(FirstInt("repos"),
                    [i \in rows("repos") |-> RepoOf(parts[i])]),
         deps |->
             DictOf(FirstInt("deps"),
                    [i \in rows("deps") |-> DepOf(parts[i])]),
         latest |->
             DictOf([i \in rows("latest") |-> parts[i][2]],
                    [i \in rows("latest") |-> LatestOf(parts[i])]),
         version_maps |->
             DictOf(FirstInt("version_maps"),
                    [i \in rows("version_maps") |-> VersionMapOf(parts[i])])]

\* EcosystemData with nothing in it
EmptyEcosystem == HydrateLines(<<>>)

\* the elif branch of the loop a data row enters: the one of its section,
\* if the row has the columns the branch asks for
BranchTaken(section, parts) ==
    IF section = "aggregation" THEN Len(parts) >= 2
    ELSE IF section = "repos" THEN Len(parts) >= 8
    ELSE IF section = "deps" THEN Len(parts) >= 6
    ELSE IF section = "latest" THEN Len(parts) >= 8
    ELSE IF section = "version_maps" THEN Len(parts) >= 7
    ELSE FALSE

\* the line numbers hydrate_tsv_cache prints "Skipping malformed line" for:
\* the rows that entered a branch and raised ValueError in an int() of it.
\* A row that enters no branch falls through the if/elif chain: nothing is
\* printed for it
WarnedLines(raw) ==
    LET n == Len(raw)
        lines == [i \in 1..n |-> Strip(raw[i], Whitespace)]
        isHeader(i) == StartsWith(lines[i], Header.PREFIX)
        named(i) == isHeader(i) /\ SectionOf(lines[i], "None") # "None"
        section(i) ==
            IF \E j \in 1..(i - 1) : named(j)
            THEN SectionOf(lines[CHOOSE j \in 1..(i - 1) :
                             /\ named(j)
                             /\ \A k \in (j + 1)..(i - 1) : ~named(k)], "None")
            ELSE "None"
        isRow(i) == /\ lines[i] # <<>>
                    /\ ~isHeader(i)
                    /\ ~IsColumnHeader(lines[i])
    IN  {i \in 1..n : /\ isRow(i)
                      /\ BranchTaken(section(i), SplitOn(lines[i], "\t"))
                      /\ ~Accepted(section(i), SplitOn(lines[i], "\t"))}

\* the outcome of a call of hydrate_tsv_cache: the exception raised, if any,
\* the EcosystemData returned and the lines a warning was printed for
NotHydrated == [exc |-> "not called", eco |-> EmptyEcosystem, warned |-> {}]

\* hydrate_tsv_cache as a bug would write it: a missing file reads as empty
hydrate_tsv_cache_missing_as_empty(exists, text) ==
    [exc |-> "none",
     eco |-> HydrateLines(SplitOn(IF exists THEN text ELSE <<>>, "\n")),
     warned |-> WarnedLines(SplitOn(IF exists THEN text ELSE <<>>, "\n"))]

\* hydrate_tsv_cache(cache_file), of a file that exists or not
hydrate_tsv_cache(exists, text) ==
    IF ~exists
    THEN [exc |-> "FileNotFoundError", eco |-> EmptyEcosystem, warned |-> {}]
    ELSE [exc |-> "none",
          eco |-> HydrateLines(SplitOn(text, "\n")),
          warned |-> WarnedLines(SplitOn(text, "\n"))]

(***************************************************************************)
(* Inputs of a build: manifests and registry answers                       *)
(***************************************************************************)

\* the package names the manifests depend on
Pkg ==
    [serde |-> <<"s", "e", "r", "d", "e">>,
     rand |-> <<"r", "a", "n", "d">>,
     log |-> <<"l", "o", "g">>,
     b |-> <<"b">>]

\* the entries of the dependency tables
Entry ==
    [\* serde = "1.0"
     serde |->
         [name |-> Pkg.serde, kind |-> "str", version |-> <<"1", ".", "0">>,
          features |-> <<>>, source |-> <<>>],
     \* serde = { version = "1.2", features = ["derive"] }
     serde_derive |->
         [name |-> Pkg.serde, kind |-> "version",
          version |-> <<"1", ".", "2">>,
          features |-> <<<<"d", "e", "r", "i", "v", "e">>>>, source |-> <<>>],
     \* rand = "0.8"
     rand |->
         [name |-> Pkg.rand, kind |-> "str", version |-> <<"0", ".", "8">>,
          features |-> <<>>, source |-> <<>>],
     \* rand = { version = "0.8", features = [" "] }
     rand_blank_feature |->
         [name |-> Pkg.rand, kind |-> "version",
          version |-> <<"0", ".", "8">>,
          features |-> <<<<" ">>>>, source |-> <<>>],
     \* log = { git = "u" }
     log_git |->
         [name |-> Pkg.log, kind |-> "git", version |-> <<>>,
          features |-> <<>>, source |-> <<"u">>],
     \* rand = { workspace = true }
     rand_workspace |->
         [name |-> Pkg.rand, kind |-> "workspace", version |-> <<>>,
          features |-> <<>>, source |-> <<>>],
     \* log = { path = ".." }, no manifest at that path
     log_path |->
         [name |-> Pkg.log, kind |-> "path", version |-> Str.LOCAL_,
          features |-> <<>>, source |-> <<".", ".">>],
     \* b = { git = "u" }, b being the name of a repository of the tree
     b_git |->
         [name |-> Pkg.b, kind |-> "git", version |-> <<>>,
          features |-> <<>>, source |-> <<"u">>]]

\* what a manifest can hold: whether it loads as TOML, whether it says
\* hub_sync = "false", and its two dependency tables
ManifestBodies ==
    {[loads |-> TRUE, hub_sync_false |-> FALSE,
      dependencies |-> <<Entry.serde>>, dev_dependencies |-> <<>>],
     [loads |-> TRUE, hub_sync_false |-> FALSE,
      dependencies |-> <<Entry.serde_derive>>, dev_dependencies |-> <<Entry.rand>>],
     [loads |-> TRUE, hub_sync_false |-> FALSE,
      dependencies |-> <<Entry.rand_blank_feature>>, dev_dependencies |-> <<>>],
     [loads |-> TRUE, hub_sync_false |-> TRUE,
      dependencies |-> <<Entry.log_git>>, dev_dependencies |-> <<>>],
     [loads |-> FALSE, hub_sync_false |-> FALSE,
      dependencies |-> <<>>, dev_dependencies |-> <<>>]}

\* the directories of a manifest path
DirsOf(path) ==
    LET parts == SplitOn(path, "/")
    IN  IF parts[Len(parts)] = ManifestName
        THEN SubSeq(parts, 1, Len(parts) - 1) ELSE parts

\* extract_org_group(rel_path)
extract_org_group(path) ==
    LET parts == DirsOf(path)
        n == Len(parts)
    IN  IF n >= 3 THEN <<parts[n - 1], parts[n]>>
        ELSE IF n = 2 THEN <<parts[1], parts[2]>>
        ELSE IF n = 1 THEN <<<<>>, parts[1]>>
        ELSE <<<<>>, <<>>>>

\* get_parent_repo(cargo_path).split('.')[0]: the name of the directory
\* above the project directory
ParentOf(path) ==
    LET parts == DirsOf(path)
    IN  IF Len(parts) >= 2 THEN parts[Len(parts) - 1] ELSE <<>>

\* the manifest at the i-th path, with the given body; the package is named
\* after its directory
ManifestAt(i, body) ==
    [path |-> AllPaths[i],
     loads |-> body.loads,
     hub_sync_false |-> body.hub_sync_false,
     name |-> extract_org_group(AllPaths[i])[2],
     version |-> <<"0", ".", "1", ".", "0">>,
     mtime |-> 17,
     internal |-> FALSE,
     parent |-> ParentOf(AllPaths[i]),
     org |-> extract_org_group(AllPaths[i])[1],
     group |-> extract_org_group(AllPaths[i])[2],
     library_type |-> Str.project,
     dependencies |-> body.dependencies,
     dev_dependencies |-> body.dev_dependencies]

\* the lists of manifests a discovery can give to a build
ManifestLists ==
    UNION {{[i \in 1..n |-> ManifestAt(i, bodies[i])] :
                bodies \in [1..n -> ManifestBodies]} : n \in 0..MaxManifests}

PackageNames == {Pkg.serde, Pkg.rand, Pkg.log, Pkg.b}

\* no lookup succeeds (no network); every lookup succeeds; only serde's does
OfflineRegistry == [n \in PackageNames |-> PyNone]
OnlineRegistry == [n \in PackageNames |-> PyStr(<<"2", ".", "0", ".", "0">>)]
SerdeOnlyRegistry == [OfflineRegistry EXCEPT ![Pkg.serde] = OnlineRegistry[Pkg.serde]]
Registries == {OfflineRegistry, OnlineRegistry, SerdeOnlyRegistry}

\* str(p) of the manifests of a list
PathsOf(files) == [i \in 1..Len(files) |-> files[i].path]

(***************************************************************************)
(* generate_data_cache, step by step, and its environment                  *)
(***************************************************************************)
NoRun == [outcome |-> "none", files |-> {}, extractions |-> 0, lookups |-> 0]

\* what a run that ends leaves behind: how it ended, the manifests it
\* discovered, the manifests it extracted and the lookups it issued
Finished(outcome) ==
    [outcome |-> outcome, files |-> Range(cargo_files),
     extractions |-> extractions, lookups |-> lookups]

\* the locals of generate_data_cache are gone when it returns
LocalsGone ==
    /\ cargo_files' = <<>>
    /\ start_time' = 0
    /\ buildEco' = NoEco
    /\ gate' = "none"
    /\ extractions' = 0
    /\ lookups' = 0

InitCache ==
    /\ tree \in SUBSET ManifestPaths
    /\ rev = 0
    /\ now = 0
    /\ cacheFile = NoCache
    /\ metaFile = NoMeta
    /\ pc = "idle"
    /\ cargo_files = <<>>
    /\ start_time = 0
    /\ buildEco = NoEco
    /\ gate = "none"
    /\ extractions = 0
    /\ lookups = 0
    /\ prevRun = NoRun
    /\ disturbed = FALSE
    /\ runs = 0
    /\ events = 0

\* Phase 1: find_all_cargo_files_fast() returns the manifests in some order
Discover ==
    /\ pc = "idle"
    /\ runs < MaxRuns
    /\ runs' = runs + 1
    /\ \E q \in Orderings(tree) : cargo_files' = q
    /\ start_time' = now
    /\ pc' = "discovered"
    /\ UNCHANGED <<envVars, diskVars, buildEco, gate, extractions, lookups,
                   prevRun, disturbed, events>>
    /\ UNCHANGED callVars

\* if should_use_cached_data(cargo_files):
CheckGate ==
    /\ pc = "discovered"
    /\ gate' = IF should_use_cached_data(cargo_files) THEN "hit" ELSE "miss"
    /\ pc' = "gated"
    /\ UNCHANGED <<envVars, diskVars, cargo_files, start_time, buildEco,
                   extractions, lookups, histVars>>
    /\ UNCHANGED callVars

\* the cache is valid: print and return
ReturnCached ==
    /\ pc = "gated"
    /\ gate = "hit"
    /\ pc' = "idle"
    /\ prevRun' = Finished("hit")
    /\ LocalsGone
    /\ disturbed' = FALSE
    /\ UNCHANGED <<envVars, diskVars, runs, events>>
    /\ UNCHANGED callVars

\* Phases 2 and 3: every manifest is read
Extract ==
    /\ pc = "gated"
    /\ gate = "miss"
    /\ pc' = "extracted"
    /\ extractions' = Len(cargo_files)
    /\ buildEco' = [files |-> Range(cargo_files), rev |-> rev]
    /\ UNCHANGED <<envVars, diskVars, cargo_files, start_time, gate, lookups,
                   histVars>>
    /\ UNCHANGED callVars

\* Phases 4 and 5: one lookup per package, then the version analysis
Fetch ==
    /\ pc = "extracted"
    /\ pc' = "fetched"
    /\ lookups' = Cardinality(buildEco.files)
    /\ UNCHANGED <<envVars, diskVars, cargo_files, start_time, buildEco, gate,
                   extractions, histVars>>
    /\ UNCHANGED callVars

\* Phase 6, write_tsv_cache: open(output_file, 'w') truncates the file
OpenTruncate ==
    /\ pc = "fetched"
    /\ pc' = "writing"
    /\ cacheFile' = [exists |-> TRUE, eco |-> buildEco, written |-> 0]
    /\ UNCHANGED <<envVars, metaFile, cargo_files, start_time, buildEco, gate,
                   extractions, lookups, histVars>>
    /\ UNCHANGED callVars

\* write_tsv_cache: the next section reaches the file
WriteSection ==
    /\ pc = "writing"
    /\ cacheFile.written < NumSections
    /\ cacheFile' = [cacheFile EXCEPT !.written = @ + 1]
    /\ UNCHANGED <<envVars, metaFile, runVars, histVars>>
    /\ UNCHANGED callVars

\* save_tree_metadata: open(metadata_path, 'w') truncates the file
SaveMetaOpen ==
    /\ pc = "writing"
    /\ cacheFile.written = NumSections
    /\ pc' = "saving"
    /\ metaFile' = TruncatedMeta
    /\ UNCHANGED <<envVars, cacheFile, cargo_files, start_time, buildEco,
                   gate, extractions, lookups, histVars>>
    /\ UNCHANGED callVars

\* save_tree_metadata as a bug would write it: the stored fingerprint is
\* that of the list in discovery order
SaveMetaDump_discovery_order ==
    /\ pc = "saving"
    /\ pc' = "idle"
    /\ metaFile' = [state |-> "ok",
                    tree_md5 |-> compute_tree_md5_unsorted(cargo_files),
                    file_count |-> Len(cargo_files),
                    timestamp |-> now,
                    processing_time |-> now - start_time]
    /\ prevRun' = Finished("built")
    /\ LocalsGone
    /\ disturbed' = FALSE
    /\ UNCHANGED <<envVars, cacheFile, runs, events>>
    /\ UNCHANGED callVars

\* save_tree_metadata: json.dump(metadata, f), and the run is over
SaveMetaDump ==
    /\ pc = "saving"
    /\ pc' = "idle"
    /\ metaFile' = [state |-> "ok",
                    tree_md5 |-> compute_tree_md5(cargo_files),
                    file_count |-> Len(cargo_files),
                    timestamp |-> now,
                    processing_time |-> now - start_time]
    /\ prevRun' = Finished("built")
    /\ LocalsGone
    /\ disturbed' = FALSE
    /\ UNCHANGED <<envVars, cacheFile, runs, events>>
    /\ UNCHANGED callVars

\* SIGINT / SIGTERM: main.signal_handler calls sys.exit(0) wherever the run is
Interrupt ==
    /\ pc # "idle"
    /\ pc' = "idle"
    /\ prevRun' = Finished("interrupted")
    /\ LocalsGone
    /\ disturbed' = FALSE
    /\ UNCHANGED <<envVars, diskVars, runs, events>>
    /\ UNCHANGED callVars

\* time passes: between runs, and while the lookups of a run are under way
Tick ==
    /\ pc \in {"idle", "extracted"}
    /\ events < MaxEvents
    /\ events' = events + 1
    /\ \E d \in {1, CACHE_TTL} : now' = now + d
    /\ disturbed' = (disturbed \/ pc = "idle")
    /\ UNCHANGED <<tree, rev, diskVars, runVars, prevRun, runs>>
    /\ UNCHANGED callVars

\* between runs, a manifest appears or disappears
ChangeTree ==
    /\ pc = "idle"
    /\ events < MaxEvents
    /\ events' = events + 1
    /\ \E p \in ManifestPaths :
           tree' = IF p \in tree THEN tree \ {p} ELSE tree \cup {p}
    /\ disturbed' = TRUE
    /\ UNCHANGED <<rev, now, diskVars, runVars, prevRun, runs>>
    /\ UNCHANGED callVars

\* between runs, the contents of a manifest are edited
EditManifest ==
    /\ pc = "idle"
    /\ tree # {}
    /\ events < MaxEvents
    /\ events' = events + 1
    /\ rev' = rev + 1
    /\ disturbed' = TRUE
    /\ UNCHANGED <<tree, now, diskVars, runVars, prevRun, runs>>
    /\ UNCHANGED callVars

\* between runs, deps_cache.tsv is deleted
DeleteCache ==
    /\ pc = "idle"
    /\ cacheFile.exists
    /\ events < MaxEvents
    /\ events' = events + 1
    /\ cacheFile' = NoCache
    /\ disturbed' = TRUE
    /\ UNCHANGED <<envVars, metaFile, runVars, prevRun, runs>>
    /\ UNCHANGED callVars

\* between runs, the cache directory with tree_metadata.json is cleared
ClearMetadata ==
    /\ pc = "idle"
    /\ metaFile.state # "absent"
    /\ events < MaxEvents
    /\ events' = events + 1
    /\ metaFile' = NoMeta
    /\ disturbed' = TRUE
    /\ UNCHANGED <<envVars, cacheFile, runVars, prevRun, runs>>
    /\ UNCHANGED callVars

\* nothing is being persisted
StoreIdle ==
    /\ manifests = <<>>
    /\ registry = OfflineRegistry
    /\ snapshot = NoSnapshot
    /\ cacheText = <<>>
    /\ tsvOrigin = "none"
    /\ hydrated = NotHydrated
    /\ gateOut = "not called"
    /\ hub_info = NoHub

VerIdle ==
    /\ verA = PyNone
    /\ verB = PyNone
    /\ verOp = "none"
    /\ verOut = NoVersion

\* no query was made
NotAsked == [called |-> FALSE, result |-> <<>>]

\* no other query or view was called
NoView == [op |-> "none", out |-> <<>>]

\* an ecosystem with nothing in it
NoEcosystem == [repos |-> <<>>, deps |-> <<>>, latest |-> <<>>]

\* main() was not run
NoMain ==
    [command |-> "none", root |-> "ok", reported |-> FALSE, steps |-> <<>>,
     exc |-> "none", answered |-> NoEco, exit |-> 0]

\* what the process was like when a signal arrived: nothing, before one
NoSignal ==
    [pc |-> "none", mode |-> "canonical echo", cursor |-> "shown",
     spinner_thread |-> "None"]

\* main() has installed its handlers and no ProgressSpinner was made: the
\* terminal is as the shell left it
NoTerm ==
    [mode |-> "canonical echo", cursor |-> "shown", handler |-> "main",
     old_terminal_settings |-> "unset", stop_spinner |-> FALSE,
     spinner_thread |-> "None", current |-> 0, pc |-> "none",
     site |-> "none", fast_mode |-> FALSE, tty |-> TRUE,
     at_signal |-> NoSignal]

QueryIdle ==
    /\ ecosystem = NoEcosystem
    /\ version_conflicts = NotAsked
    /\ view = NoView
    /\ cli = NoMain
    /\ term = NoTerm

Init == InitCache /\ VerIdle /\ StoreIdle /\ QueryIdle

Next ==
    \/ Discover
    \/ CheckGate
    \/ ReturnCached
    \/ Extract
    \/ Fetch
    \/ OpenTruncate
    \/ WriteSection
    \/ SaveMetaOpen
    \/ SaveMetaDump
    \/ Interrupt
    \/ Tick
    \/ ChangeTree
    \/ EditManifest
    \/ DeleteCache
    \/ ClearMetadata

Spec == Init /\ [][Next]_vars

(***************************************************************************)
(* Claims about the cache gate and the build (checked under Spec)          *)
(***************************************************************************)
\* the four conditions of the cache gate, as the specification lists them
PayloadExists == cacheFile.exists
MetadataReadable == metaFile.state = "ok"
FingerprintMatches == compute_tree_md5(cargo_files) = metaFile.tree_md5
Fresh == now - metaFile.timestamp <= CACHE_TTL

\* C1: should_use_cached_data returns true if and only if the cache file
\* exists, the stored metadata exists and is readable, the fingerprint of the
\* discovered paths equals the stored one and the stored timestamp is at most
\* 24 hours old; a changed tree alone and staleness alone each make it false.
C1_GateIffFourConditions ==
    pc = "gated" =>
        /\ gate = "hit" <=>
               (PayloadExists /\ MetadataReadable /\ FingerprintMatches /\ Fresh)
        /\ (MetadataReadable /\ ~FingerprintMatches) => gate = "miss"
        /\ (MetadataReadable /\ ~Fresh) => gate = "miss"

\* C1 happens: the gate refuses a cache for staleness alone
C1_StaleAloneRefused ==
    /\ pc = "gated"
    /\ gate = "miss"
    /\ PayloadExists /\ MetadataReadable /\ FingerprintMatches /\ ~Fresh

\* the gate refuses a cache for a changed tree alone
TreeChangeAloneRefused ==
    /\ pc = "gated"
    /\ gate = "miss"
    /\ PayloadExists /\ MetadataReadable /\ ~FingerprintMatches /\ Fresh

\* a step of a run that was not sent through the build phases
ShortCircuitStep ==
    \/ pc = "idle" /\ pc' = "discovered"
    \/ pc = "discovered" /\ pc' = "gated"
    \/ pc = "gated" /\ gate = "hit" /\ pc' = "idle"

\* C2: a build that follows a completed build, with nothing having happened
\* to the tree in between, finds the cache valid, extracts no manifest, issues
\* no lookup and leaves the cache file and the tree metadata as they were.
C2_SecondBuildShortCircuits ==
    [][/\ (/\ pc = "discovered" /\ pc' = "gated"
           /\ prevRun.outcome \in {"built", "hit"}
           /\ ~disturbed) => gate' = "hit"
       /\ ShortCircuitStep => UNCHANGED diskVars
       /\ (pc = "gated" /\ gate = "hit") =>
              /\ extractions = 0
              /\ lookups = 0
              /\ pc' \in {"gated", "idle"}]_vars

\* C2 happens: the build after a completed build of two manifests, listed
\* the second time in another order, has short-circuited
C2_SecondBuildHit ==
    /\ pc = "idle"
    /\ runs = 2
    /\ ~disturbed
    /\ events = 0
    /\ prevRun.outcome = "hit"
    /\ Cardinality(prevRun.files) >= 2
    /\ cacheFile.written = NumSections

\* C3: after an interrupt the cache file is the complete previous cache, or
\* absent, or the complete new cache, never a prefix of the new one.
C3_CacheNeverHalfWritten ==
    pc = "idle" => (cacheFile.exists => cacheFile.written = NumSections)

\* the cache file holds all the sections a build over the discovered paths
\* writes
CacheIsOfDiscoveredTree ==
    /\ cacheFile.exists
    /\ cacheFile.written = NumSections
    /\ \E files \in Orderings(cacheFile.eco.files) :
           compute_tree_md5(files) = compute_tree_md5(cargo_files)

\* C28: whatever builds, interruptions, deletions of the cache file and
\* changes of the tree came before, when should_use_cached_data returns
\* true the cache file holds the complete output of a build over a tree of
\* the same fingerprint.
C28_HitMeansCompleteCacheOfTree ==
    (pc = "gated" /\ gate = "hit") => CacheIsOfDiscoveredTree

\* tree metadata is recorded only after the cache file of the same build
\* was written completely
C28_MetadataRecordedAfterCompleteWrite ==
    [][(metaFile' # metaFile /\ metaFile'.state = "ok") =>
           /\ cacheFile.exists
           /\ cacheFile.written = NumSections
           /\ cacheFile.eco.files = Range(cargo_files)
           /\ metaFile'.tree_md5 = compute_tree_md5(cargo_files)
           /\ UNCHANGED cacheFile]_vars

\* the gate let a cache file of fewer than all sections through
HitOnPartialCache ==
    /\ pc = "gated"
    /\ gate = "hit"
    /\ cacheFile.written < NumSections

\* the gate let the complete cache of another tree through: the build that
\* wrote it was interrupted before save_tree_metadata
HitOnCacheOfOtherTree ==
    /\ pc = "gated"
    /\ gate = "hit"
    /\ cacheFile.written = NumSections
    /\ cacheFile.eco.files # Range(cargo_files)

\* the last run ended with a valid cache of the paths now discovered; the
\* cache file and the metadata are still there, the metadata is at most 24
\* hours old, and a manifest was edited after the cache was built
EditedSinceCompletedBuild ==
    /\ prevRun.outcome \in {"built", "hit"}
    /\ prevRun.files = Range(cargo_files)
    /\ cacheFile.exists
    /\ metaFile.state = "ok"
    /\ now - metaFile.timestamp <= CACHE_TTL
    /\ cacheFile.eco.rev # rev

\* C29: the fingerprint depends on the manifest paths only. An edit of a
\* manifest that adds, removes or renames no path leaves the fingerprint of
\* the tree as it was; a build run within 24 hours of the previous one then
\* finds the cache valid and returns with the cache file and the tree
\* metadata exactly as they were.
C29_EditDoesNotInvalidate ==
    [][/\ rev' # rev =>
              /\ tree' = tree
              /\ \A q \in Orderings(tree) :
                     compute_tree_md5(q)' = compute_tree_md5(q)
       /\ (pc = "discovered" /\ pc' = "gated" /\ EditedSinceCompletedBuild)
              => gate' = "hit"
       /\ (pc = "gated" /\ gate = "hit" /\ pc' = "idle") =>
              /\ UNCHANGED <<cacheFile, metaFile>>
              /\ extractions = 0
              /\ lookups = 0]_vars

\* C29 happens: a build completed, the only thing that happened then was the
\* edit of a manifest, and the next build has returned the cache of the
\* contents before the edit
C29_EditedThenShortCircuited ==
    /\ pc = "idle"
    /\ runs = 2
    /\ events = 1
    /\ prevRun.outcome = "hit"
    /\ prevRun.files # {}
    /\ cacheFile.exists
    /\ cacheFile.written = NumSections
    /\ cacheFile.eco.rev # rev

\* C5: compute_tree_md5 gives the same fingerprint for every permutation of
\* a list of manifest paths.
C5_FingerprintOrderIndependent ==
    \A q \in Orderings(Range(cargo_files)) :
        compute_tree_md5(q) = compute_tree_md5(cargo_files)

\* C5 happens: the discovered list has several paths and is not in sorted
\* order
C5_UnsortedListFingerprinted ==
    /\ pc = "gated"
    /\ Len(cargo_files) >= 2
    /\ cargo_files # SortStrings(cargo_files)
    /\ metaFile.state = "ok"

(***************************************************************************)
(* Specification of the version functions: one call on chosen arguments    *)
(***************************************************************************)
InitVer ==
    /\ verA \in RawVersions
    /\ verB \in RawVersions
    /\ verOp = "none"
    /\ verOut = NoVersion
    /\ InitCache
    /\ tree = {}
    /\ StoreIdle
    /\ QueryIdle

CallCanonicalize ==
    /\ verOp = "none"
    /\ verOp' = "canonicalize_version"
    /\ verOut' = canonicalize_version(verA)
    /\ UNCHANGED <<verA, verB, cacheVars, storeVars, queryVars>>

CallVersionsEqual ==
    /\ verOp = "none"
    /\ verOp' = "versions_equal"
    /\ verOut' = versions_equal(verA, verB)
    /\ UNCHANGED <<verA, verB, cacheVars, storeVars, queryVars>>

CallIsBreakingChange ==
    /\ verOp = "none"
    /\ verOp' = "is_breaking_change"
    /\ verOut' = is_breaking_change(verA, verB)
    /\ UNCHANGED <<verA, verB, cacheVars, storeVars, queryVars>>

NextVer == CallCanonicalize \/ CallVersionsEqual \/ CallIsBreakingChange

SpecVer == InitVer /\ [][NextVer]_vars

(***************************************************************************)
(* Specification of the cache store: one build is persisted, the file is   *)
(* read back, damaged or removed, and the cache gate is asked              *)
(***************************************************************************)
InitStore ==
    /\ manifests \in ManifestLists
    /\ registry \in Registries
    /\ snapshot = NoSnapshot
    /\ cacheText = <<>>
    /\ tsvOrigin = "none"
    /\ hydrated = NotHydrated
    /\ gateOut = "not called"
    /\ hub_info = NoHub
    /\ InitCache
    /\ tree = Range(PathsOf(manifests))
    /\ VerIdle
    /\ QueryIdle

\* the lifecycle and query variables the store leaves alone
storeFrame == <<tree, rev, now, pc, cargo_files, start_time, buildEco, gate,
                extractions, lookups, prevRun, disturbed, runs, events,
                hub_info, ecosystem, version_conflicts, view, cli, term>>

\* Phases 2 to 5 of generate_data_cache
BuildEcosystem ==
    /\ snapshot.built = "no"
    /\ snapshot' = BuildSnapshot(manifests, registry)
    /\ UNCHANGED <<manifests, registry, cacheText, tsvOrigin, hydrated,
                   gateOut, diskVars, storeFrame, verVars>>

\* Phase 6 of generate_data_cache and save_tree_metadata
PersistEcosystem ==
    /\ snapshot.built = "yes"
    /\ tsvOrigin = "none"
    /\ cacheText' = write_tsv_cache(snapshot)
    /\ tsvOrigin' = "write_tsv_cache"
    /\ cacheFile' = [exists |-> TRUE, eco |-> NoEco, written |-> NumSections]
    /\ metaFile' = [state |-> "ok",
                    tree_md5 |-> compute_tree_md5(PathsOf(manifests)),
                    file_count |-> Len(manifests),
                    timestamp |-> now,
                    processing_time |-> 0]
    /\ hydrated' = NotHydrated
    /\ gateOut' = "not called"
    /\ UNCHANGED <<manifests, registry, snapshot, storeFrame, verVars>>

\* the index of the first line after the column header of a section, 0 if
\* the section is not in the file
FirstRowOf(lines, header) ==
    IF \E i \in 1..Len(lines) : lines[i] = header
    THEN (CHOOSE i \in 1..Len(lines) : lines[i] = header) + 2
    ELSE 0

\* the malformed files the model tries: the file cut where a section would
\* start or inside a section header, the first row of a section with a
\* first column that is no integer, and such a row cut to its first two
\* columns
DamagedTexts(text) ==
    LET lines == SplitOn(text, "\n")
        start(h) == CHOOSE n \in 0..Len(text) :
                        /\ SubSeq(text, n + 1, n + Len(h)) = h
                        /\ \A m \in 0..(n - 1) :
                               SubSeq(text, m + 1, m + Len(h)) # h
        row(h) == FirstRowOf(lines, h)
        hasRow(h) == row(h) > 0 /\ row(h) <= Len(lines) /\ lines[row(h)] # <<>>
        with(i, l) == JoinWith([lines EXCEPT ![i] = l], <<"\n">>)
        noInt(l) == <<"x">> \o l
        short(l) == LET parts == SplitOn(l, "\t")
                    IN  JoinWith(SubSeq(parts, 1, 2), <<"\t">>)
    IN  {SubSeq(text, 1, start(h)) : h \in {Header.REPOS, Header.LATEST}}
        \cup {SubSeq(text, 1, start(h) + 9) : h \in {Header.DEPS, Header.MAPS}}
        \cup {with(row(h), noInt(lines[row(h)])) :
                  h \in {x \in {Header.REPOS, Header.DEPS, Header.MAPS} : hasRow(x)}}
        \cup {with(row(h), short(lines[row(h)])) :
                  h \in {x \in {Header.REPOS, Header.LATEST} : hasRow(x)}}

\* something else rewrites deps_cache.tsv: rows are malformed, or the file
\* is a prefix of what was written
DamageCache ==
    /\ tsvOrigin = "write_tsv_cache"
    /\ \E text \in DamagedTexts(cacheText) : cacheText' = text
    /\ tsvOrigin' = "damaged"
    /\ hydrated' = NotHydrated
    /\ gateOut' = "not called"
    /\ UNCHANGED <<manifests, registry, snapshot, diskVars, storeFrame,
                   verVars>>

\* the file as an older version of the schema has it: the rows of the
\* REPOS and LATEST sections hold their first 8 columns only
OlderSchemaText(text) ==
    LET lines == SplitOn(text, "\n")
        row(h) == FirstRowOf(lines, h)
        inSection(i, h) ==
            /\ row(h) > 0
            /\ i >= row(h)
            /\ \A j \in row(h)..i :
                   lines[j] # <<>> /\ ~StartsWith(lines[j], Header.PREFIX)
        older(l) == LET parts == SplitOn(l, "\t")
                    IN  IF Len(parts) > 8
                        THEN JoinWith(SubSeq(parts, 1, 8), <<"\t">>) ELSE l
    IN  JoinWith([i \in 1..Len(lines) |->
                     IF inSection(i, Header.REPOS) \/ inSection(i, Header.LATEST)
                     THEN older(lines[i]) ELSE lines[i]],
                 <<"\n">>)

\* deps_cache.tsv is a file of an older version of the schema
AgeCache ==
    /\ tsvOrigin = "write_tsv_cache"
    /\ cacheText' = OlderSchemaText(cacheText)
    /\ tsvOrigin' = "older schema"
    /\ hydrated' = NotHydrated
    /\ gateOut' = "not called"
    /\ UNCHANGED <<manifests, registry, snapshot, diskVars, storeFrame,
                   verVars>>

\* deps_cache.tsv is deleted
RemoveCache ==
    /\ cacheFile.exists
    /\ cacheFile' = NoCache
    /\ cacheText' = <<>>
    /\ tsvOrigin' = "removed"
    /\ hydrated' = NotHydrated
    /\ gateOut' = "not called"
    /\ UNCHANGED <<manifests, registry, snapshot, metaFile, storeFrame,
                   verVars>>

\* a view command: hydrate_tsv_cache()
CallHydrate ==
    /\ hydrated = NotHydrated
    /\ hydrated' = hydrate_tsv_cache(cacheFile.exists, cacheText)
    /\ UNCHANGED <<manifests, registry, snapshot, cacheText, tsvOrigin,
                   gateOut, diskVars, storeFrame, verVars>>

\* then the gate of the next build: should_use_cached_data(cargo_files)
CallGate ==
    /\ hydrated # NotHydrated
    /\ gateOut = "not called"
    /\ gateOut' = IF should_use_cached_data(PathsOf(manifests))
                  THEN "true" ELSE "false"
    /\ UNCHANGED <<manifests, registry, snapshot, cacheText, tsvOrigin,
                   hydrated, diskVars, storeFrame, verVars>>

NextStore ==
    \/ BuildEcosystem
    \/ PersistEcosystem
    \/ DamageCache
    \/ AgeCache
    \/ RemoveCache
    \/ CallHydrate
    \/ CallGate

SpecStore == InitStore /\ [][NextStore]_vars

(***************************************************************************)
(* Queries of a loaded ecosystem                                           *)
(***************************************************************************)
\* the most dependency edges a queried ecosystem holds
MaxEdges == 3

\* the raw version strings the edges declare
RawVersion ==
    [v1_0 |-> <<"1", ".", "0">>,
     v1_2 |-> <<"1", ".", "2">>,
     v1_0_0 |-> <<"1", ".", "0", ".", "0">>,
     v2_0 |-> <<"2", ".", "0">>,
     v2_0_0 |-> <<"2", ".", "0", ".", "0">>]

EdgeVersions == {RawVersion.v1_0, RawVersion.v1_2, RawVersion.v1_0_0,
                 RawVersion.v2_0, RawVersion.v2_0_0}
EdgePackages == {Pkg.serde, Pkg.rand}

RECURSIVE PackageVersions(_)
\* package_versions after the loop of get_version_conflicts over
\* ecosystem.deps.values(): for each pkg_name the set of its pkg_version
PackageVersions(values) ==
    IF values = <<>> THEN <<>>
    ELSE LET d == PackageVersions(SubSeq(values, 1, Len(values) - 1))
             dep == values[Len(values)]
         IN  [p \in DOMAIN d \cup {dep.pkg_name} |->
                 (IF p \in DOMAIN d THEN d[p] ELSE {})
                 \cup (IF p = dep.pkg_name THEN {dep.pkg_version} ELSE {})]

RECURSIVE PackageVersionLists(_)
\* as PackageVersions, the versions of a package collected in a list
PackageVersionLists(values) ==
    IF values = <<>> THEN <<>>
    ELSE LET d == PackageVersionLists(SubSeq(values, 1, Len(values) - 1))
             dep == values[Len(values)]
         IN  [p \in DOMAIN d \cup {dep.pkg_name} |->
                 (IF p \in DOMAIN d THEN d[p] ELSE <<>>)
                 \o (IF p = dep.pkg_name THEN <<dep.pkg_version>> ELSE <<>>)]

\* get_version_conflicts as a bug would write it: the versions of a package
\* are collected in a list, so a version declared twice counts twice
get_version_conflicts_list(values) ==
    LET package_versions == PackageVersionLists(values)
    IN  [pkg \in {p \in DOMAIN package_versions :
                      Len(package_versions[p]) > 1} |->
            SortStrings(package_versions[pkg])]

\* get_version_conflicts(ecosystem), of the values of ecosystem.deps
get_version_conflicts(values) ==
    LET package_versions == PackageVersions(values)
    IN  [pkg \in {p \in DOMAIN package_versions :
                      Cardinality(package_versions[p]) > 1} |->
            SortStrings(CHOOSE q \in Orderings(package_versions[pkg]) : TRUE)]

InitQuery ==
    /\ QueryIdle
    /\ InitCache
    /\ tree = {}
    /\ VerIdle
    /\ StoreIdle

\* one more dependency edge is in the ecosystem that is loaded
LoadDep ==
    /\ ~version_conflicts.called
    /\ Len(ecosystem.deps) < MaxEdges
    /\ \E name \in EdgePackages, ver \in EdgeVersions :
           ecosystem' = [ecosystem EXCEPT !.deps =
                            Append(@, [pkg_name |-> name, pkg_version |-> ver])]
    /\ UNCHANGED <<version_conflicts, view, cli, term, verVars, cacheVars,
                   storeVars>>

\* a view command: version_conflicts = get_version_conflicts(ecosystem)
CallGetVersionConflicts ==
    /\ ~version_conflicts.called
    /\ version_conflicts' = [called |-> TRUE,
                             result |-> get_version_conflicts(ecosystem.deps)]
    /\ UNCHANGED <<ecosystem, view, cli, term, verVars, cacheVars, storeVars>>

NextQuery ==
    \/ LoadDep
    \/ CallGetVersionConflicts

SpecQuery == InitQuery /\ [][NextQuery]_vars

(***************************************************************************)
(* Usage counts: the queries and the views that report one                 *)
(***************************************************************************)
\* the most dependency edges of an ecosystem whose usage is counted
MaxUsageEdges == 2

\* get_hub_repo_id(ecosystem): the id of the first repository named "hub",
\* or None
get_hub_repo_id(eco) ==
    LET named == {i \in 1..Len(eco.repos) : eco.repos[i].repo_name = Str.hub}
    IN  IF named = {} THEN [none |-> TRUE, id |-> 0]
        ELSE [none |-> FALSE,
              id |-> eco.repos[CHOOSE i \in named :
                                   \A j \in named : i <= j].repo_id]

\* is_local_or_workspace_dep(dep)
is_local_or_workspace_dep(dep) ==
    dep.pkg_version \in {Str.path, Str.workspace, Str.LOCAL_, Str.WORKSPACE}

\* should_exclude_from_stats(dep, hub_repo_id)
should_exclude_from_stats(dep, hub_repo_id) ==
    IF is_local_or_workspace_dep(dep) THEN TRUE
    ELSE IF ~hub_repo_id.none /\ dep.repo_id = hub_repo_id.id THEN TRUE
    ELSE FALSE

\* get_package_usage_count(ecosystem, pkg_name)
get_package_usage_count(eco, pkg_name) ==
    LET hub_repo_id == get_hub_repo_id(eco)
        counted(dep) == /\ dep.pkg_name = pkg_name
                        /\ ~should_exclude_from_stats(dep, hub_repo_id)
    IN  Len(SelectSeq(eco.deps, counted))

\* the dict usage_counts that get_packages_by_usage and view_stats build:
\* one is added for every edge that is not excluded
UsageCounts(eco) ==
    LET hub_repo_id == get_hub_repo_id(eco)
        kept(dep) == ~should_exclude_from_stats(dep, hub_repo_id)
        deps == SelectSeq(eco.deps, kept)
    IN  [p \in {deps[i].pkg_name : i \in 1..Len(deps)} |->
            Cardinality({i \in 1..Len(deps) : deps[i].pkg_name = p})]

\* get_packages_by_usage(ecosystem): the (package, count) pairs sorted by
\* falling count, then by name
get_packages_by_usage(eco) ==
    LET usage_counts == UsageCounts(eco)
        before(p, q) == \/ usage_counts[p] > usage_counts[q]
                        \/ usage_counts[p] = usage_counts[q] /\ StrLess(p, q)
        order == CHOOSE o \in Orderings(DOMAIN usage_counts) :
                     \A i, j \in 1..Len(o) : i < j => before(o[i], o[j])
    IN  [i \in 1..Len(order) |-> <<order[i], usage_counts[order[i]]>>]

\* the usage_count view_hub_dashboard shows for each package that is in the
\* hub: every edge of the package whose version is not 'path' or 'workspace'
view_hub_dashboard(eco) ==
    LET in_hub == {i \in 1..Len(eco.latest) :
                      eco.latest[i].hub_status \in {Str.current, Str.outdated}}
        counted(p) == {i \in 1..Len(eco.deps) :
                          /\ eco.deps[i].pkg_name = p
                          /\ eco.deps[i].pkg_version
                                 \notin {Str.path, Str.workspace}}
    IN  [p \in {eco.latest[i].pkg_name : i \in in_hub} |->
            Cardinality(counted(p))]

\* the consumer_count view_usage shows for each package: the number of
\* distinct repositories among the edges that are not excluded
view_usage(eco) ==
    LET hub_repo_id == get_hub_repo_id(eco)
        kept == {i \in 1..Len(eco.deps) :
                    ~should_exclude_from_stats(eco.deps[i], hub_repo_id)}
    IN  [p \in {eco.deps[i].pkg_name : i \in kept} |->
            Cardinality({eco.deps[i].repo_id :
                             i \in {j \in kept : eco.deps[j].pkg_name = p}})]

\* the usage_counts view_stats shows
view_stats(eco) == UsageCounts(eco)

\* the ecosystems whose usage is counted: two repositories, the first of
\* them the hub or not; serde is in the hub and rand is not; every edge is
\* declared by one of the repositories, for one of the packages, with a
\* version or a local/workspace sentinel, as a normal or a dev dependency
UsageEcosystems ==
    LET repos(first) == <<[repo_id |-> 100, repo_name |-> first],
                          [repo_id |-> 101, repo_name |-> <<"b">>]>>
        latest == <<[pkg_name |-> Pkg.serde, hub_status |-> Str.current],
                    [pkg_name |-> Pkg.rand, hub_status |-> Str.gap]>>
        edges == [repo_id : {100, 101},
                  pkg_name : {Pkg.serde, Pkg.rand},
                  pkg_version : {RawVersion.v1_0, Str.path, Str.WORKSPACE},
                  dep_type : {Str.dep, Str.dev_dep}]
        lists == UNION {[1..n -> edges] : n \in 0..MaxUsageEdges}
    IN  {[repos |-> repos(first), deps |-> deps, latest |-> latest] :
             first \in {Str.hub, <<"a">>}, deps \in lists}

InitUsage ==
    /\ ecosystem \in UsageEcosystems
    /\ version_conflicts = NotAsked
    /\ view = NoView
    /\ cli = NoMain
    /\ term = NoTerm
    /\ InitCache
    /\ tree = {}
    /\ VerIdle
    /\ StoreIdle

\* the variables a query or a view leaves alone
viewFrame == <<ecosystem, version_conflicts, cli, term, verVars, cacheVars,
               storeVars>>

\* get_package_usage_count(ecosystem, pkg_name)
CallGetPackageUsageCount ==
    /\ view = NoView
    /\ \E pkg_name \in {Pkg.serde, Pkg.rand} :
           view' = [op |-> "get_package_usage_count",
                    out |-> (pkg_name :>
                                 get_package_usage_count(ecosystem, pkg_name))]
    /\ UNCHANGED viewFrame

\* get_packages_by_usage(ecosystem)
CallGetPackagesByUsage ==
    /\ view = NoView
    /\ view' = [op |-> "get_packages_by_usage",
                out |-> get_packages_by_usage(ecosystem)]
    /\ UNCHANGED viewFrame

\* the hub command
CallViewHubDashboard ==
    /\ view = NoView
    /\ view' = [op |-> "view_hub_dashboard",
                out |-> view_hub_dashboard(ecosystem)]
    /\ UNCHANGED viewFrame

\* the usage command
CallViewUsage ==
    /\ view = NoView
    /\ view' = [op |-> "view_usage", out |-> view_usage(ecosystem)]
    /\ UNCHANGED viewFrame

\* the stats command
CallViewStats ==
    /\ view = NoView
    /\ view' = [op |-> "view_stats", out |-> view_stats(ecosystem)]
    /\ UNCHANGED viewFrame

NextUsage ==
    \/ CallGetPackageUsageCount
    \/ CallGetPackagesByUsage
    \/ CallViewHubDashboard
    \/ CallViewUsage
    \/ CallViewStats

SpecUsage == InitUsage /\ [][NextUsage]_vars

(***************************************************************************)
(* Breaking updates and safe updates                                       *)
(***************************************************************************)
\* the most dependency edges of an ecosystem that is asked for updates
MaxUpdateEdges == 2

\* the outcome of a list-valued function: a list, or an exception
ReturnedList(l) == [exc |-> "none", val |-> l]
RaisedList(e) == [exc |-> e, val |-> <<>>]

\* max(items, key=...) for a list that is not empty, key being the list of
\* the keys: the key of every item is computed in turn and compared (>) with
\* the key of the greatest item so far; comparing None with anything is a
\* TypeError. [exc, val]: the first item whose key is greatest
MaxByKey(items, key) ==
    LET n == Len(items)
        failing == {i \in 1..n :
                       \/ key[i].tag = "IndexError"
                       \/ i > 1 /\ (key[i].tag = "None" \/ key[1].tag = "None")}
    IN  IF failing # {}
        THEN [exc |-> IF key[CHOOSE i \in failing :
                                 \A j \in failing : i <= j].tag = "IndexError"
                      THEN "IndexError" ELSE "TypeError",
              val |-> <<>>]
        ELSE IF n = 1 THEN [exc |-> "none", val |-> items[1]]
        ELSE [exc |-> "none",
              val |-> items[CHOOSE i \in 1..n :
                          /\ \A j \in 1..n : ~VersionLess(key[i], key[j])
                          /\ \A j \in 1..(i - 1) : VersionLess(key[j], key[i])]]

\* max(pkg_versions, key=parse_version)
MaxByParseVersion(pkg_versions) ==
    MaxByKey(pkg_versions,
             [i \in 1..Len(pkg_versions) |->
                 parse_version(PyStr(pkg_versions[i]))])

\* the body of the loop of get_breaking_updates once current_version is
\* known: [exc, hit, entry]
BreakingOfCurrent(latest, current) ==
    IF current.exc # "none"
    THEN [exc |-> current.exc, hit |-> FALSE, entry |-> <<>>]
    ELSE [exc |-> is_breaking_change(PyStr(current.val),
                                     PyStr(latest.latest_version)).exc,
          hit |-> is_breaking_change(PyStr(current.val),
                                     PyStr(latest.latest_version)).val,
          entry |-> <<latest.pkg_name, current.val, latest.latest_version>>]

\* the body of the loop of get_breaking_updates for one latest record, the
\* versions its edges declare being given
BreakingUpdate(latest, pkg_versions) ==
    IF latest.source_type = Str.crate /\ pkg_versions # <<>>
    THEN BreakingOfCurrent(latest, MaxByParseVersion(pkg_versions))
    ELSE [exc |-> "none", hit |-> FALSE, entry |-> <<>>]

\* what the loop of get_breaking_updates returns, or raises, the outcomes
\* of its rounds being given
CollectBreaking(outcomes) ==
    LET raising(o) == o.exc # "none"
        hit(o) == o.hit
        hits == SelectSeq(outcomes, hit)
    IN  IF SelectSeq(outcomes, raising) # <<>>
        THEN RaisedList(Head(SelectSeq(outcomes, raising)).exc)
        ELSE ReturnedList([k \in 1..Len(hits) |-> hits[k].entry])

\* the versions the edges of a package declare, in the order of the edges
VersionsDeclared(deps, pkg_name) ==
    LET this(dep) == dep.pkg_name = pkg_name
        edges == SelectSeq(deps, this)
    IN  [j \in 1..Len(edges) |-> edges[j].pkg_version]

\* get_breaking_updates(ecosystem): (pkg_name, current_version,
\* latest_version) for every crate whose highest declared version makes a
\* breaking change to the latest one
get_breaking_updates(eco) ==
    CollectBreaking(
        [i \in 1..Len(eco.latest) |->
            BreakingUpdate(eco.latest[i],
                           VersionsDeclared(eco.deps, eco.latest[i].pkg_name))])

\* ecosystem.latest.get(pkg_name): [found, info]
LatestInfo(eco, pkg_name) ==
    LET at == {i \in 1..Len(eco.latest) : eco.latest[i].pkg_name = pkg_name}
    IN  IF at = {} THEN [found |-> FALSE, info |-> <<>>]
        ELSE [found |-> TRUE, info |-> eco.latest[CHOOSE i \in at : TRUE]]

\* the safe_updates both update_repo_dependencies and update_ecosystem
\* collect for one repository
SafeUpdates(eco, repo_id) ==
    LET mine(dep) == dep.repo_id = repo_id
        repo_deps == SelectSeq(eco.deps, mine)
        latest_info(dep) == LatestInfo(eco, dep.pkg_name)
        examined(dep) ==
            /\ latest_info(dep).found
            /\ latest_info(dep).info.hub_status = Str.outdated
            /\ latest_info(dep).info.latest_stable_version # <<>>
            /\ dep.pkg_version # <<>>
            /\ ~LocalPrefixed(dep.pkg_version)
        breaking(dep) ==
            is_breaking_change(
                PyStr(dep.pkg_version),
                PyStr(latest_info(dep).info.latest_stable_version))
        raises(dep) == examined(dep) /\ breaking(dep).exc # "none"
        safe(dep) == examined(dep) /\ ~breaking(dep).val
        found == SelectSeq(repo_deps, safe)
    IN  IF SelectSeq(repo_deps, raises) # <<>>
        THEN RaisedList(breaking(Head(SelectSeq(repo_deps, raises))).exc)
        ELSE ReturnedList([k \in 1..Len(found) |->
                 [name |-> found[k].pkg_name,
                  current |-> found[k].pkg_version,
                  stable |->
                      latest_info(found[k]).info.latest_stable_version,
                  dep_type |-> found[k].dep_type]])

\* update_repo_dependencies(ecosystem, repo_name, dry_run=True): the safe
\* updates it lists for the first repository of that name, if there is one
update_repo_dependencies(eco, repo_name) ==
    LET named == {i \in 1..Len(eco.repos) : eco.repos[i].repo_name = repo_name}
        target_repo == eco.repos[CHOOSE i \in named : \A j \in named : i <= j]
    IN  IF named = {} THEN [found |-> FALSE, safe_updates |-> ReturnedList(<<>>)]
        ELSE [found |-> TRUE,
              safe_updates |-> SafeUpdates(eco, target_repo.repo_id)]

\* update_ecosystem(ecosystem, dry_run=True): the safe updates it lists for
\* every repository but hub and rsb
update_ecosystem(eco) ==
    LET target_repos == {i \in 1..Len(eco.repos) :
                            eco.repos[i].repo_name
                                \notin {Str.hub, <<"r", "s", "b">>}}
    IN  [name \in {eco.repos[i].repo_name : i \in target_repos} |->
            SafeUpdates(eco,
                eco.repos[CHOOSE i \in target_repos :
                              eco.repos[i].repo_name = name].repo_id)]

\* the ecosystems asked for updates: the hub and one more repository; serde
\* is a crate the hub declares; rand is a git package; an edge declares a
\* version, the workspace sentinel or a prefixed path
UpdateEcosystems ==
    LET repos == <<[repo_id |-> 100, repo_name |-> Str.hub],
                   [repo_id |-> 101, repo_name |-> <<"a">>]>>
        latest(v, status) ==
            <<[pkg_name |-> Pkg.serde, source_type |-> Str.crate,
               latest_version |-> v, latest_stable_version |-> v,
               hub_status |-> status],
              [pkg_name |-> Pkg.rand, source_type |-> Str.git,
               latest_version |-> RawVersion.v2_0,
               latest_stable_version |-> RawVersion.v2_0,
               hub_status |-> Str.local]>>
        edges == [repo_id : {100, 101},
                  pkg_name : {Pkg.serde, Pkg.rand},
                  pkg_version : {RawVersion.v1_0, RawVersion.v2_0,
                                 Str.WORKSPACE, Str.path_colon},
                  dep_type : {Str.dep}]
        lists == UNION {[1..n -> edges] : n \in 0..MaxUpdateEdges}
    IN  {[repos |-> repos, deps |-> deps, latest |-> latest(v, status)] :
             deps \in lists, v \in {RawVersion.v1_2, RawVersion.v2_0},
             status \in {Str.current, Str.outdated}}

InitUpdates ==
    /\ ecosystem \in UpdateEcosystems
    /\ version_conflicts = NotAsked
    /\ view = NoView
    /\ cli = NoMain
    /\ term = NoTerm
    /\ InitCache
    /\ tree = {}
    /\ VerIdle
    /\ StoreIdle

\* get_breaking_updates(ecosystem)
CallGetBreakingUpdates ==
    /\ view = NoView
    /\ view' = [op |-> "get_breaking_updates",
                out |-> get_breaking_updates(ecosystem)]
    /\ UNCHANGED viewFrame

\* update_repo_dependencies(ecosystem, repo_name, dry_run=True)
CallUpdateRepoDependencies ==
    /\ view = NoView
    /\ \E repo_name \in {Str.hub, <<"a">>, <<"b">>} :
           view' = [op |-> "update_repo_dependencies",
                    out |-> [repo_name |-> repo_name]
                            @@ update_repo_dependencies(ecosystem, repo_name)]
    /\ UNCHANGED viewFrame

\* update_ecosystem(ecosystem, dry_run=True)
CallUpdateEcosystem ==
    /\ view = NoView
    /\ view' = [op |-> "update_ecosystem", out |-> update_ecosystem(ecosystem)]
    /\ UNCHANGED viewFrame

NextUpdates ==
    \/ CallGetBreakingUpdates
    \/ CallUpdateRepoDependencies
    \/ CallUpdateEcosystem

SpecUpdates == InitUpdates /\ [][NextUpdates]_vars

(***************************************************************************)
(* The latest-version step of a build on its own                           *)
(***************************************************************************)
\* the manifests whose packages are looked up: one or two dependencies, of
\* every kind of source
FetchManifestLists ==
    LET body(deps) == [loads |-> TRUE, hub_sync_false |-> FALSE,
                       dependencies |-> deps, dev_dependencies |-> <<>>]
        bodies == {body(<<Entry.serde>>), body(<<Entry.rand_workspace>>),
                   body(<<Entry.log_git>>), body(<<Entry.log_path>>),
                   body(<<Entry.b_git>>),
                   body(<<Entry.serde, Entry.log_git>>)}
    IN  UNION {{[i \in 1..n |-> ManifestAt(i, bs[i])] :
                    bs \in [1..n -> bodies]} : n \in 1..MaxManifests}

\* what crates.io answers for serde (nothing, or a version) and what
\* resolve_git_version makes of git's answer for log
FetchRegistries ==
    {[OfflineRegistry EXCEPT ![Pkg.serde] = crate, ![Pkg.log] = git] :
         crate \in {PyNone, PyStr(RawVersion.v1_2)},
         git \in {PyNone, PyStr(RawVersion.v1_2), PyStr(Str.AUTH_REQUIRED),
                  PyStr(Str.NOT_FOUND), PyStr(Str.TIMEOUT),
                  PyStr(Str.GIT_ERROR), PyStr(Str.GIT_hash \o Str.HEAD)}}

\* get_hub_info(): no hub, or a hub that declares nothing, serde (below, at
\* or above the latest version, with a version that does not parse, or with
\* a blank one) or log
HubInfos ==
    {NoHub, [none |-> FALSE, dependencies |-> <<>>]}
    \cup {[none |-> FALSE, dependencies |-> (Pkg.serde :> v)] :
              v \in {RawVersion.v1_0, RawVersion.v1_2, RawVersion.v2_0,
                     <<"*">>, <<" ">>}}
    \cup {[none |-> FALSE, dependencies |-> (Pkg.log :> RawVersion.v1_0)]}

InitFetch ==
    /\ manifests \in FetchManifestLists
    /\ registry \in FetchRegistries
    /\ hub_info \in HubInfos
    /\ snapshot = NoSnapshot
    /\ cacheText = <<>>
    /\ tsvOrigin = "none"
    /\ hydrated = NotHydrated
    /\ gateOut = "not called"
    /\ InitCache
    /\ tree = Range(PathsOf(manifests))
    /\ VerIdle
    /\ QueryIdle

\* Phase 4 of generate_data_cache: batch_fetch_latest_versions(
\* packages_with_sources, hub_info, repos), with the lookups it issues for
\* each package it comes to
CallBatchFetch ==
    /\ view = NoView
    /\ LET repos == extract_repo_metadata_batch(manifests)
           packages ==
               SortedPackages(collect_unique_packages_with_sources(manifests))
           rounds == RoundsOf(packages, hub_info, repos, registry)
           reached == {i \in 1..Len(packages) :
                          \A j \in 1..(i - 1) :
                              ~(/\ rounds[j].kept
                                /\ rounds[j].data.hub_status = <<"raises">>)}
       IN  view' = [op |-> "batch_fetch_latest_versions",
                    out |-> [latest_data |-> RecordsMade(rounds),
                             lookups |-> [name \in {packages[i].pkg_name :
                                                        i \in reached} |->
                                 LookupsFor(
                                     CHOOSE p \in Range(packages) :
                                         p.pkg_name = name, repos)]]]
    /\ UNCHANGED viewFrame

\* Phase 5 of generate_data_cache: generate_version_analysis(deps, repos,
\* latest_versions), of the records Phase 4 made
CallGenerateVersionAnalysis ==
    /\ view.op = "batch_fetch_latest_versions"
    /\ LET repos == extract_repo_metadata_batch(manifests)
           deps == extract_dependencies_batch(manifests)
       IN  view' = [op |-> "generate_version_analysis",
                    out |-> [deps |-> deps,
                             version_maps |->
                                 generate_version_analysis(
                                     deps, repos, view.out.latest_data)]]
    /\ UNCHANGED viewFrame

\* Phase 3 of generate_data_cache: collect_unique_packages_with_sources(
\* cargo_files), of the list find_all_cargo_files_fast() returned
CallCollectUniquePackages ==
    /\ view = NoView
    /\ view' = [op |-> "collect_unique_packages_with_sources",
                out |-> collect_unique_packages_with_sources(manifests)]
    /\ UNCHANGED viewFrame

NextFetch ==
    \/ CallCollectUniquePackages
    \/ CallBatchFetch
    \/ CallGenerateVersionAnalysis

SpecFetch == InitFetch /\ [][NextFetch]_vars

(***************************************************************************)
(* The command line: one run of main() is one step                         *)
(***************************************************************************)
\* the states of RUST_REPO_ROOT when the module is loaded: not set and not
\* detected, the path of a directory that does not exist, a directory
RootStates == {"unset", "missing", "ok"}

\* the commands main() answers from the hydrated cache
ViewCommands == {"conflicts", "stats"}

\* analyze_dependencies(): with no usable root it prints the error and
\* returns {}; otherwise it walks the tree and reads the manifests
analyze_dependencies(root) ==
    [reported |-> root # "ok",
     steps |-> IF root = "ok" THEN <<"analyze">> ELSE <<>>]

\* what find_all_cargo_files_fast() can return: [] without a root, and for
\* a root that does not exist (find fails, os.walk finds nothing)
DiscoveredLists(root) == Orderings(IF root = "ok" THEN tree ELSE {})

\* main() with the command 'latest' and no package name: sys.exit(1)
MainLatest ==
    /\ pc = "idle"
    /\ runs < MaxRuns
    /\ runs' = runs + 1
    /\ \E root \in RootStates :
           cli' = [command |-> "latest", root |-> root, reported |-> TRUE,
                   steps |-> <<>>, exc |-> "none", answered |-> NoEco,
                   exit |-> 1]
    /\ UNCHANGED <<envVars, diskVars, runVars, prevRun, disturbed, events>>
    /\ UNCHANGED <<verVars, storeVars, ecosystem, version_conflicts, view,
                   term>>

\* main() with a view command: analyze_dependencies(), then
\* hydrate_tsv_cache() and the view; FileNotFoundError is caught by
\* except Exception, printed, and main returns
MainView ==
    /\ pc = "idle"
    /\ runs < MaxRuns
    /\ runs' = runs + 1
    /\ \E root \in RootStates, command \in ViewCommands :
           LET analysis == analyze_dependencies(root)
           IN  cli' = IF cacheFile.exists
                      THEN [command |-> command, root |-> root,
                            reported |-> analysis.reported,
                            steps |-> analysis.steps \o <<"hydrate", "view">>,
                            exc |-> "none", answered |-> cacheFile.eco,
                            exit |-> 0]
                      ELSE [command |-> command, root |-> root,
                            reported |-> analysis.reported,
                            steps |-> analysis.steps \o <<"hydrate">>,
                            exc |-> "FileNotFoundError", answered |-> NoEco,
                            exit |-> 0]
    /\ UNCHANGED <<envVars, diskVars, runVars, prevRun, disturbed, events>>
    /\ UNCHANGED <<verVars, storeVars, ecosystem, version_conflicts, view,
                   term>>

\* main() with the command 'data': analyze_dependencies(), then
\* generate_data_cache(dependencies) from Phase 1 to save_tree_metadata
MainData ==
    /\ pc = "idle"
    /\ runs < MaxRuns
    /\ runs' = runs + 1
    /\ \E root \in RootStates :
       \E files \in DiscoveredLists(root) :
           LET analysis == analyze_dependencies(root)
           IN  IF should_use_cached_data(files)
               THEN /\ cli' = [command |-> "data", root |-> root,
                               reported |-> analysis.reported,
                               steps |-> analysis.steps
                                         \o <<"discover", "gate">>,
                               exc |-> "none", answered |-> NoEco,
                               exit |-> 0]
                    /\ UNCHANGED diskVars
               ELSE /\ cli' = [command |-> "data", root |-> root,
                               reported |-> analysis.reported,
                               steps |-> analysis.steps
                                         \o <<"discover", "gate", "build",
                                              "write">>,
                               exc |-> "none", answered |-> NoEco,
                               exit |-> 0]
                    /\ cacheFile' = [exists |-> TRUE,
                                     eco |-> [files |-> Range(files),
                                              rev |-> rev],
                                     written |-> NumSections]
                    /\ metaFile' = [state |-> "ok",
                                    tree_md5 |-> compute_tree_md5(files),
                                    file_count |-> Len(files),
                                    timestamp |-> now,
                                    processing_time |-> 0]
    /\ UNCHANGED <<envVars, runVars, prevRun, disturbed, events>>
    /\ UNCHANGED <<verVars, storeVars, ecosystem, version_conflicts, view,
                   term>>

NextMain ==
    \/ MainLatest
    \/ MainView
    \/ MainData
    \/ Tick
    \/ ChangeTree
    \/ EditManifest
    \/ DeleteCache

SpecMain == Init /\ [][NextMain]_vars

(***************************************************************************)
(* The progress spinner, the terminal and the interrupt signals            *)
(***************************************************************************)
\* the most calls of ProgressSpinner.update the model follows
MaxProgress == 2

\* the functions that run a spinner: the first two stop it after the work
\* and in 'except Exception', the last two in 'finally'
ExceptSites == {"batch_fetch_latest_versions", "export_raw_data"}
FinallySites == {"superclean_targets", "tap"}

\* the variables the spinner leaves alone
termFrame == <<cacheVars, verVars, storeVars, ecosystem, version_conflicts,
               view, cli>>

\* ProgressSpinner.__init__: only batch_fetch_latest_versions passes
\* fast_mode; without it the spinner's handler replaces main's for SIGINT
\* and SIGTERM
SpinnerInit ==
    /\ term.pc = "none"
    /\ \E site \in ExceptSites \cup FinallySites, fast_mode, tty \in BOOLEAN :
           /\ fast_mode => site = "batch_fetch_latest_versions"
           /\ term' = [term EXCEPT
                           !.site = site,
                           !.fast_mode = fast_mode,
                           !.tty = tty,
                           !.stop_spinner = FALSE,
                           !.spinner_thread = "None",
                           !.current = 0,
                           !.handler = IF fast_mode THEN @ ELSE "spinner",
                           !.pc = "constructed"]
    /\ UNCHANGED termFrame

\* ProgressSpinner.start: the terminal settings are saved and ICANON and
\* ECHO cleared (termios fails when stdin is no terminal), the cursor is
\* hidden, the thread is started
SpinnerStart ==
    /\ term.pc = "constructed"
    /\ term' = IF term.fast_mode
               THEN [term EXCEPT !.pc = "running"]
               ELSE [term EXCEPT
                        !.stop_spinner = FALSE,
                        !.old_terminal_settings =
                            IF term.tty THEN term.mode ELSE "None",
                        !.mode = IF term.tty THEN "raw" ELSE @,
                        !.cursor = "hidden",
                        !.spinner_thread = "alive",
                        !.pc = "running"]
    /\ UNCHANGED termFrame

\* ProgressSpinner.update
SpinnerUpdate ==
    /\ term.pc = "running"
    /\ term.current < MaxProgress
    /\ term' = IF term.fast_mode THEN term
               ELSE [term EXCEPT !.current = @ + 1]
    /\ UNCHANGED termFrame

\* ProgressSpinner.spin, in its thread: the loop ends when stop_spinner is
\* set
SpinExit ==
    /\ term.spinner_thread = "alive"
    /\ term.stop_spinner
    /\ term' = [term EXCEPT !.spinner_thread = "finished"]
    /\ UNCHANGED termFrame

\* the process after ProgressSpinner.stop: the thread is joined, the saved
\* settings are put back if there are any, the cursor is shown
Stopped(t) ==
    IF t.fast_mode THEN t
    ELSE [t EXCEPT
             !.stop_spinner = TRUE,
             !.spinner_thread = IF @ = "None" THEN @ ELSE "finished",
             !.mode = IF t.old_terminal_settings \in {"unset", "None"}
                      THEN @ ELSE t.old_terminal_settings,
             !.cursor = "shown"]

\* the work is done: progress.stop(...)
SpinnerStop ==
    /\ term.pc = "running"
    /\ term' = [Stopped(term) EXCEPT !.pc = "stopped"]
    /\ UNCHANGED termFrame

\* SIGINT or SIGTERM arrives. ProgressSpinner._signal_handler sets
\* stop_spinner, clears the two lines and calls sys.exit(0);
\* main.signal_handler shows the cursor, runs 'stty sane' on a terminal and
\* calls sys.exit(0)
Signal ==
    /\ term.pc \in {"none", "constructed", "running", "stopped"}
    /\ LET seen == [pc |-> term.pc, mode |-> term.mode,
                    cursor |-> term.cursor,
                    spinner_thread |-> term.spinner_thread]
       IN  term' = IF term.handler = "spinner"
                   THEN [term EXCEPT !.stop_spinner = TRUE,
                                     !.at_signal = seen,
                                     !.pc = "unwinding"]
                   ELSE [term EXCEPT !.cursor = "shown",
                                     !.mode = IF term.tty
                                              THEN "canonical echo" ELSE @,
                                     !.at_signal = seen,
                                     !.pc = "unwinding"]
    /\ UNCHANGED termFrame

\* SystemExit leaves the function: 'except Exception' does not catch it,
\* 'finally' runs progress.stop() if the signal arrived inside the try
Unwind ==
    /\ term.pc = "unwinding"
    /\ term' = IF term.at_signal.pc = "running" /\ term.site \in FinallySites
               THEN [Stopped(term) EXCEPT !.pc = "exiting"]
               ELSE [term EXCEPT !.pc = "exiting"]
    /\ UNCHANGED termFrame

\* the interpreter exits once the spinner's thread, which is no daemon, has
\* ended
ProcessExit ==
    /\ term.pc = "exiting"
    /\ term.spinner_thread # "alive"
    /\ term' = [term EXCEPT !.pc = "exited"]
    /\ UNCHANGED termFrame

InitSpinner == Init /\ tree = {}

NextSpinner ==
    \/ SpinnerInit
    \/ SpinnerStart
    \/ SpinnerUpdate
    \/ SpinExit
    \/ SpinnerStop
    \/ Signal
    \/ Unwind
    \/ ProcessExit

SpecSpinner == InitSpinner /\ [][NextSpinner]_vars

(***************************************************************************)
(* Claims about the cache store (checked under SpecStore)                  *)
(***************************************************************************)
\* the hydrated aggregation holds exactly the metrics of the snapshot
SameAggregation(eco, snap) ==
    LET m == AggregationMetrics(snap)
    IN  /\ DOMAIN eco.aggregation = {m[i][1] : i \in 1..Len(m)}
        /\ \A i \in 1..Len(m) : eco.aggregation[m[i][1]] = IntToStr(m[i][2])

\* C4: writing a built snapshot with write_tsv_cache and reloading it with
\* hydrate_tsv_cache gives the same aggregation metrics and the same numbers
\* of repositories, dependency edges and packages.
C4_RoundTripPreservesCounts ==
    (tsvOrigin = "write_tsv_cache" /\ hydrated.exc = "none") =>
        /\ SameAggregation(hydrated.eco, snapshot)
        /\ Cardinality(DOMAIN hydrated.eco.repos) = Len(snapshot.repos)
        /\ Cardinality(DOMAIN hydrated.eco.deps) = Len(snapshot.deps)
        /\ Cardinality(DOMAIN hydrated.eco.latest) = Len(snapshot.latest)

\* a row whose last column is blank loses that column to line.strip()
BlankLastColumn(snap) ==
    \E i \in 1..Len(snap.deps) : Strip(snap.deps[i].features, Whitespace) = <<>>

\* the round trip of C4 does preserve the counts of every snapshot without
\* such a row
C4_HoldsWithoutBlankLastColumn ==
    (tsvOrigin = "write_tsv_cache" /\ hydrated.exc = "none"
     /\ ~BlankLastColumn(snapshot)) =>
        /\ SameAggregation(hydrated.eco, snapshot)
        /\ Cardinality(DOMAIN hydrated.eco.repos) = Len(snapshot.repos)
        /\ Cardinality(DOMAIN hydrated.eco.deps) = Len(snapshot.deps)
        /\ Cardinality(DOMAIN hydrated.eco.latest) = Len(snapshot.latest)

\* C6: with no cache file on disk should_use_cached_data returns false and
\* hydrate_tsv_cache raises FileNotFoundError; for a cache file that exists,
\* malformed rows or not, hydrate_tsv_cache does not raise it.
C6_AbsentIsSignalledDistinctly ==
    /\ (hydrated.exc # "not called" /\ ~cacheFile.exists) =>
           hydrated.exc = "FileNotFoundError"
    /\ (gateOut # "not called" /\ ~cacheFile.exists) => gateOut = "false"
    /\ (hydrated.exc # "not called" /\ cacheFile.exists) =>
           hydrated.exc # "FileNotFoundError"

\* C6 happens: the cache file was written and deleted, the tree metadata is
\* still valid, and both calls were made
C6_AbsentCacheAsked ==
    /\ tsvOrigin = "removed"
    /\ ~cacheFile.exists
    /\ metaFile.state = "ok"
    /\ metaFile.tree_md5 = compute_tree_md5(PathsOf(manifests))
    /\ Len(manifests) >= 1
    /\ hydrated.exc = "FileNotFoundError"
    /\ gateOut = "false"

\* a file with malformed rows was hydrated
MalformedCacheHydrated ==
    /\ tsvOrigin = "damaged"
    /\ hydrated.exc = "none"
    /\ gateOut = "true"

(***************************************************************************)
(* Claims about the queries (checked under SpecQuery)                      *)
(***************************************************************************)
\* the distinct raw version strings the edges of a package declare
DistinctVersions(p) ==
    {ecosystem.deps[i].pkg_version :
         i \in {j \in 1..Len(ecosystem.deps) : ecosystem.deps[j].pkg_name = p}}

DeclaresTwoVersions(p) ==
    \E a, b \in DistinctVersions(p) :
        ~VersionEq(canonicalize_version(PyStr(a)),
                   canonicalize_version(PyStr(b)))

\* C11: when checking for conflicts, versions that differ only by trailing
\* zero components are one version: a package is reported exactly when its
\* edges declare two versions that differ otherwise, so 2.0 and 2.0.0 give
\* no conflict and 1.0 and 2.0 give one.
C11_TrailingZerosAreOneVersion ==
    version_conflicts.called =>
        \A p \in EdgePackages :
            p \in DOMAIN version_conflicts.result <=> DeclaresTwoVersions(p)

\* where C11 fails: the edges of a package declare 2.0 and 2.0.0 only, and
\* the package is reported with both strings
TrailingZerosReported ==
    /\ version_conflicts.called
    /\ \E p \in EdgePackages :
           /\ DistinctVersions(p) = {RawVersion.v2_0, RawVersion.v2_0_0}
           /\ p \in DOMAIN version_conflicts.result

\* the other half of C11 holds: 1.0 and 2.0 are reported as a conflict
C11_DifferentVersionsReported ==
    version_conflicts.called =>
        \A p \in EdgePackages :
            DeclaresTwoVersions(p) => p \in DOMAIN version_conflicts.result

\* the references of a snapshot hold: repos, deps, latest and version_maps
\* being the sets of its records
ReferencesHold(repos, deps, latest, version_maps) ==
    /\ \A d \in deps : \E r \in repos : r.repo_id = d.repo_id
    /\ \A m \in version_maps :
           /\ \E d \in deps : d.dep_id = m.dep_id
           /\ \E l \in latest : l.pkg_id = m.pkg_id
           /\ \E r \in repos : r.repo_id = m.repo_id

\* the records of a dict of the hydrated ecosystem
ValuesOf(dict) == {dict[k] : k \in DOMAIN dict}

\* C17: in every snapshot, built or hydrated from a cache a build wrote,
\* the repo_id of every dependency edge is the id of a repository of the
\* snapshot, and the dep_id, pkg_id and repo_id of every version
\* classification are ids of an edge, a package and a repository of it.
C17_ReferencesHold ==
    /\ snapshot.built = "yes" =>
           ReferencesHold(Range(snapshot.repos), Range(snapshot.deps),
                          Range(snapshot.latest), Range(snapshot.version_maps))
    /\ (hydrated.exc = "none" /\ tsvOrigin = "write_tsv_cache") =>
           ReferencesHold(ValuesOf(hydrated.eco.repos),
                          ValuesOf(hydrated.eco.deps),
                          ValuesOf(hydrated.eco.latest),
                          ValuesOf(hydrated.eco.version_maps))

\* the references hold in every snapshot a build makes
C17_BuiltReferencesHold ==
    snapshot.built = "yes" =>
        ReferencesHold(Range(snapshot.repos), Range(snapshot.deps),
                       Range(snapshot.latest), Range(snapshot.version_maps))

\* the references hold in a hydrated snapshot that has every row written
C17_HydratedReferencesHoldWhenAllRowsLoad ==
    (/\ hydrated.exc = "none"
     /\ tsvOrigin = "write_tsv_cache"
     /\ Cardinality(DOMAIN hydrated.eco.deps) = Len(snapshot.deps)) =>
        ReferencesHold(ValuesOf(hydrated.eco.repos),
                       ValuesOf(hydrated.eco.deps),
                       ValuesOf(hydrated.eco.latest),
                       ValuesOf(hydrated.eco.version_maps))

\* the package names the manifests of a build declare with a version
ObservedPackages ==
    LET entries == AllEntries(manifests)
    IN  {entries[i].name : i \in {j \in 1..Len(entries) :
             Truthy(parse_dependency_info(entries[j]).version)}}

\* C18: a build makes exactly one package record for every package name
\* observed in the manifests and one version classification for every
\* dependency edge, also when the lookup of a package fails.
C18_OneRecordPerPackageAndEdge ==
    snapshot.built = "yes" =>
        /\ {snapshot.latest[i].pkg_name : i \in 1..Len(snapshot.latest)}
               = ObservedPackages
        /\ \A i, j \in 1..Len(snapshot.latest) :
               snapshot.latest[i].pkg_name = snapshot.latest[j].pkg_name
                   => i = j
        /\ \A d \in Range(snapshot.deps) :
               Cardinality({i \in 1..Len(snapshot.version_maps) :
                   snapshot.version_maps[i].dep_id = d.dep_id}) = 1

\* every lookup of a crate the manifests declare gave a version
CrateLookupsAnswer ==
    \A p \in Range(collect_unique_packages_with_sources(manifests)) :
        p.source_type = Str.crate => Truthy(registry[p.pkg_name])

\* the build is as C18 says when every crate lookup gives a version; and no
\* package has two records whatever the lookups give
C18_HoldsWhenLookupsAnswer ==
    snapshot.built = "yes" =>
        /\ \A i, j \in 1..Len(snapshot.latest) :
               snapshot.latest[i].pkg_name = snapshot.latest[j].pkg_name
                   => i = j
        /\ CrateLookupsAnswer =>
               /\ {snapshot.latest[i].pkg_name : i \in 1..Len(snapshot.latest)}
                      = ObservedPackages
               /\ \A d \in Range(snapshot.deps) :
                      Cardinality({i \in 1..Len(snapshot.version_maps) :
                          snapshot.version_maps[i].dep_id = d.dep_id}) = 1

\* the ecosystem the file of the current schema loads as
LoadedInFull == hydrate_tsv_cache(TRUE, write_tsv_cache(snapshot)).eco

\* C20: hydrate_tsv_cache accepts rows of an older schema: a repository row
\* with its first 8 columns only loads with is_internal 'false', org '',
\* group '' and library_type 'project', a package row with its first 8
\* columns only loads with git_status 'OK'; the load does not fail and the
\* other rows and sections load as they do from the file in full.
C20_OlderRowsLoadWithDefaults ==
    (tsvOrigin = "older schema" /\ hydrated # NotHydrated) =>
        LET full == LoadedInFull
        IN  /\ hydrated.exc = "none"
            /\ hydrated.eco.repos =
                   [k \in DOMAIN full.repos |->
                       [full.repos[k] EXCEPT
                            !.is_internal = Str.false, !.org = <<>>,
                            !.group = <<>>, !.library_type = Str.project]]
            /\ hydrated.eco.latest =
                   [k \in DOMAIN full.latest |->
                       [full.latest[k] EXCEPT !.git_status = Str.OK]]
            /\ hydrated.eco.deps = full.deps
            /\ hydrated.eco.version_maps = full.version_maps
            /\ hydrated.eco.aggregation = full.aggregation

\* a file of the older schema was loaded, and the defaults are seen: a
\* repository written with an org and a package written with a git status
\* that is not OK
C20_OlderCacheLoaded ==
    /\ tsvOrigin = "older schema"
    /\ hydrated.exc = "none"
    /\ DOMAIN hydrated.eco.deps # {}
    /\ \E r \in Range(snapshot.repos) :
           /\ r.org # <<>>
           /\ r.repo_id \in DOMAIN hydrated.eco.repos
           /\ hydrated.eco.repos[r.repo_id].org = <<>>
    /\ \E l \in Range(snapshot.latest) :
           /\ l.git_status = Str.UNREACHABLE
           /\ l.pkg_name \in DOMAIN hydrated.eco.latest
           /\ hydrated.eco.latest[l.pkg_name].git_status = Str.OK

\* the lines of a damaged file that are not the lines write_tsv_cache wrote,
\* where the damage left the number of lines as it was
MalformedLines ==
    LET written == SplitOn(write_tsv_cache(snapshot), "\n")
        read == SplitOn(cacheText, "\n")
    IN  IF Len(read) = Len(written)
        THEN {i \in 1..Len(read) : read[i] # written[i]}
        ELSE {}

\* the records of dict loaded are records of dict full, and at most
\* missing of the records of full are not in loaded
LoadedBut(loaded, full, missing) ==
    /\ DOMAIN loaded \subseteq DOMAIN full
    /\ \A k \in DOMAIN loaded : loaded[k] = full[k]
    /\ Cardinality(DOMAIN full \ DOMAIN loaded) <= missing

\* C21: hydrate_tsv_cache skips, with a warning, every row that has not the
\* expected columns or whose typed columns do not parse; every other row of
\* the file is still loaded and the load does not abort.
C21_MalformedRowsSkippedWithWarning ==
    (tsvOrigin = "damaged" /\ hydrated # NotHydrated) =>
        /\ hydrated.exc = "none"
        /\ MalformedLines \subseteq hydrated.warned

\* without the warning C21 holds: the load returns, and with one malformed
\* row the file loads as the written file does, but for one record
C21_OtherRowsStillLoaded ==
    (tsvOrigin = "damaged" /\ hydrated # NotHydrated) =>
        LET full == LoadedInFull
            eco == hydrated.eco
            n == IF MalformedLines = {} THEN Len(cacheText)
                 ELSE Cardinality(MalformedLines)
        IN  /\ hydrated.exc = "none"
            /\ LoadedBut(eco.aggregation, full.aggregation, n)
            /\ LoadedBut(eco.repos, full.repos, n)
            /\ LoadedBut(eco.deps, full.deps, n)
            /\ LoadedBut(eco.latest, full.latest, n)
            /\ LoadedBut(eco.version_maps, full.version_maps, n)
            /\ MalformedLines # {} =>
                   Cardinality(DOMAIN full.repos \ DOMAIN eco.repos)
                   + Cardinality(DOMAIN full.deps \ DOMAIN eco.deps)
                   + Cardinality(DOMAIN full.latest \ DOMAIN eco.latest)
                   + Cardinality(DOMAIN full.version_maps
                                 \ DOMAIN eco.version_maps) <= n

\* a row cut to two columns was skipped and nothing was printed for it
ShortRowSkippedSilently ==
    /\ tsvOrigin = "damaged"
    /\ hydrated.exc = "none"
    /\ hydrated.warned = {}
    /\ MalformedLines # {}

\* a row whose first column is no integer was skipped with a warning
MalformedRowWarned ==
    /\ tsvOrigin = "damaged"
    /\ hydrated.exc = "none"
    /\ MalformedLines # {}
    /\ hydrated.warned = MalformedLines

\* the path of the manifest that declares each edge of the build, in the
\* order extract_dependencies_batch finds the edges
DeclaringPaths ==
    LET ms == ScannedManifests(manifests)
    IN  Flatten([i \in 1..Len(ms) |->
            [k \in 1..(Len(TableRows(ms[i].dependencies, 0, Str.dep))
                       + Len(TableRows(ms[i].dev_dependencies, 0, Str.dev_dep)))
                |-> ms[i].path]])

\* the edges of the build whose repo_id is the id of the repository made of
\* the manifest that declares them
OwnedByDeclarer ==
    {j \in 1..Len(snapshot.deps) :
        \E i \in 1..Len(snapshot.repos) :
            /\ snapshot.repos[i].repo_id = snapshot.deps[j].repo_id
            /\ snapshot.repos[i].path = DeclaringPaths[j]}

\* C24: in every build each edge's repo_id is the id of the repository
\* record made of the manifest that declares the dependency, also when a
\* manifest that opts out of the hub-sync scan precedes other manifests.
C24_EdgeOwnedByDeclaringRepo ==
    snapshot.built = "yes" => OwnedByDeclarer = 1..Len(snapshot.deps)

\* a manifest with hub_sync = "false" comes before a scanned manifest
OptOutPrecedes ==
    \E i, j \in 1..Len(manifests) :
        /\ i < j
        /\ manifests[i].loads /\ manifests[i].hub_sync_false
        /\ Scanned(manifests[j])

\* C24 holds for the builds in which no such manifest precedes another
C24_HoldsWithoutOptOutBefore ==
    (snapshot.built = "yes" /\ ~OptOutPrecedes) =>
        OwnedByDeclarer = 1..Len(snapshot.deps)

\* an edge is recorded under the repository of the opted-out manifest
EdgeOwnedByOptedOutRepo ==
    /\ snapshot.built = "yes"
    /\ OptOutPrecedes
    /\ \E j \in 1..Len(snapshot.deps) :
           /\ j \notin OwnedByDeclarer
           /\ \E i \in 1..Len(manifests) :
                  /\ manifests[i].hub_sync_false
                  /\ \E r \in Range(snapshot.repos) :
                         /\ r.repo_id = snapshot.deps[j].repo_id
                         /\ r.path = manifests[i].path

(***************************************************************************)
(* Claims about the command line (checked under SpecMain)                  *)
(***************************************************************************)
\* C22: a run of main() with an unset root path, or with a root directory
\* that does not exist, reports the error and ends with a non-zero exit
\* status without discovery, build or view; the cache file and the tree
\* metadata are left as they were.
C22_BadRootIsFatal ==
    [][(runs' # runs /\ cli'.root # "ok" /\ cli'.command # "latest") =>
           /\ cli'.reported
           /\ cli'.exit # 0
           /\ cli'.steps = <<>>
           /\ UNCHANGED diskVars]_vars

\* the error of C22 is reported, and that is all: analyze_dependencies
\* walks no tree in such a run
C22_BadRootIsReported ==
    (cli.root # "ok" /\ cli.command # "none") =>
        cli.reported /\ "analyze" \notin Range(cli.steps)

\* a run without a usable root wrote a cache of no manifests over the cache
\* of a tree, and ended with exit status 0
BadRootOverwroteCache ==
    /\ cli.root # "ok"
    /\ cli.command = "data"
    /\ cli.exit = 0
    /\ "write" \in Range(cli.steps)
    /\ cacheFile.exists /\ cacheFile.eco.files = {}
    /\ metaFile.file_count = 0
    /\ tree # {}

\* C23: a command that needs the ecosystem, run while no cache file exists,
\* runs a build and is answered from the rebuilt ecosystem.
C23_MissingCacheTriggersRebuild ==
    [][(/\ runs' # runs
        /\ cli'.command \in ViewCommands
        /\ cli'.root = "ok"
        /\ ~cacheFile.exists) =>
           /\ cli'.exc = "none"
           /\ "build" \in Range(cli'.steps)
           /\ cacheFile'.exists
           /\ cli'.answered = cacheFile'.eco
           /\ cli'.answered.files = tree]_vars

\* what the code does with no cache file: the 'data' command builds, a view
\* command prints the FileNotFoundError and ends with exit status 0
C23_OnlyDataCommandRebuilds ==
    [][(runs' # runs /\ ~cacheFile.exists) =>
           /\ cli'.command = "data" =>
                  "build" \in Range(cli'.steps) /\ cacheFile'.exists
           /\ cli'.command \in ViewCommands =>
                  /\ cli'.exc = "FileNotFoundError"
                  /\ cli'.steps = analyze_dependencies(cli'.root).steps
                                  \o <<"hydrate">>
                  /\ cli'.exit = 0
                  /\ UNCHANGED diskVars]_vars

\* a view command was run with a root and no cache file
ViewAskedWithoutCache ==
    /\ cli.command \in ViewCommands
    /\ cli.root = "ok"
    /\ cli.exc = "FileNotFoundError"
    /\ ~cacheFile.exists
    /\ tree # {}

(***************************************************************************)
(* Claims about the interrupt (checked under SpecSpinner)                  *)
(***************************************************************************)
\* the signal arrived while the spinner was running: the terminal in
\* non-canonical no-echo mode, the cursor hidden, the thread alive
InterruptedWhileSpinning ==
    /\ term.at_signal.pc = "running"
    /\ term.at_signal.mode = "raw"
    /\ term.at_signal.cursor = "hidden"
    /\ term.at_signal.spinner_thread = "alive"

\* C27: if an interrupt signal arrives while the spinner is running, then
\* when the process exits the saved terminal settings are restored, the
\* cursor is shown and the spinner thread has stopped.
C27_InterruptUnwindsCleanly ==
    (term.pc = "exited" /\ InterruptedWhileSpinning) =>
        /\ term.mode = term.old_terminal_settings
        /\ term.cursor = "shown"
        /\ term.spinner_thread = "finished"

\* C27 holds where progress.stop() is in a finally clause, and the thread
\* has stopped at every exit
C27_HoldsWhereStopIsInFinally ==
    (term.pc = "exited" /\ InterruptedWhileSpinning) =>
        /\ term.spinner_thread = "finished"
        /\ term.site \in FinallySites =>
               /\ term.mode = term.old_terminal_settings
               /\ term.cursor = "shown"
        /\ term.site \in ExceptSites =>
               term.mode = "raw" /\ term.cursor = "hidden"

\* the process exited from Phase 4 of a build with the terminal in
\* non-canonical mode and the cursor hidden
ExitedWithRawTerminal ==
    /\ term.pc = "exited"
    /\ InterruptedWhileSpinning
    /\ term.site = "batch_fetch_latest_versions"
    /\ term.old_terminal_settings = "canonical echo"
    /\ term.mode = "raw"
    /\ term.cursor = "hidden"
    /\ term.spinner_thread = "finished"

\* the process exited from the interrupted cleanup with the terminal as it
\* was
ExitedWithTerminalRestored ==
    /\ term.pc = "exited"
    /\ InterruptedWhileSpinning
    /\ term.site = "superclean_targets"
    /\ term.mode = "canonical echo"
    /\ term.cursor = "shown"

(***************************************************************************)
(* Claims about the usage counts (checked under SpecUsage)                 *)
(***************************************************************************)
\* the repositories that declare a package, the hub and the declarations
\* with a local/workspace sentinel not counted
DeclaringRepos(p) ==
    LET hub_repo_id == get_hub_repo_id(ecosystem)
    IN  {ecosystem.deps[i].repo_id :
             i \in {j \in 1..Len(ecosystem.deps) :
                       /\ ecosystem.deps[j].pkg_name = p
                       /\ ~should_exclude_from_stats(ecosystem.deps[j],
                                                     hub_repo_id)}}

\* C12: the usage count of a package, from get_package_usage_count and from
\* get_packages_by_usage, is the number of distinct repositories that
\* declare it, the hub and sentinel declarations not counted; a repository
\* that declares it as a normal and as a dev dependency counts once.
C12_UsageCountsDistinctRepos ==
    /\ view.op = "get_package_usage_count" =>
           \A p \in DOMAIN view.out :
               view.out[p] = Cardinality(DeclaringRepos(p))
    /\ view.op = "get_packages_by_usage" =>
           \A i \in 1..Len(view.out) :
               view.out[i][2] = Cardinality(DeclaringRepos(view.out[i][1]))

\* a repository declares every package at most once among the edges counted
DeclaredOncePerRepo ==
    LET hub_repo_id == get_hub_repo_id(ecosystem)
    IN  \A i, j \in 1..Len(ecosystem.deps) :
            (/\ i # j
             /\ ecosystem.deps[i].pkg_name = ecosystem.deps[j].pkg_name
             /\ ecosystem.deps[i].repo_id = ecosystem.deps[j].repo_id)
            => should_exclude_from_stats(ecosystem.deps[i], hub_repo_id)

\* the count of C12 is right where no repository declares a package twice
C12_HoldsWhereDeclaredOnce ==
    DeclaredOncePerRepo =>
        /\ view.op = "get_package_usage_count" =>
               \A p \in DOMAIN view.out :
                   view.out[p] = Cardinality(DeclaringRepos(p))
        /\ view.op = "get_packages_by_usage" =>
               /\ \A i \in 1..Len(view.out) :
                      view.out[i][2]
                          = Cardinality(DeclaringRepos(view.out[i][1]))
               /\ {view.out[i][1] : i \in 1..Len(view.out)}
                      = {p \in {Pkg.serde, Pkg.rand} : DeclaringRepos(p) # {}}

\* C13: the usage count the hub dashboard, the usage view and the stats view
\* show for a package is the one get_package_usage_count gives.
C13_ViewsAgreeOnUsage ==
    view.op \in {"view_hub_dashboard", "view_usage", "view_stats"} =>
        \A p \in DOMAIN view.out :
            view.out[p] = get_package_usage_count(ecosystem, p)

\* the stats view does agree with get_package_usage_count
C13_StatsViewAgrees ==
    view.op = "view_stats" =>
        \A p \in {Pkg.serde, Pkg.rand} :
            get_package_usage_count(ecosystem, p)
                = IF p \in DOMAIN view.out THEN view.out[p] ELSE 0

\* the usage view agrees with get_package_usage_count where no repository
\* declares a package twice
C13_UsageViewAgreesWhereDeclaredOnce ==
    (view.op = "view_usage" /\ DeclaredOncePerRepo) =>
        \A p \in {Pkg.serde, Pkg.rand} :
            get_package_usage_count(ecosystem, p)
                = IF p \in DOMAIN view.out THEN view.out[p] ELSE 0

\* where C13 fails by the dashboard's own rule: an edge of the hub
\* repository is counted by the dashboard and by no other view
HubEdgeCountedByDashboard ==
    /\ view.op = "view_hub_dashboard"
    /\ ~get_hub_repo_id(ecosystem).none
    /\ DeclaredOncePerRepo
    /\ \E p \in DOMAIN view.out :
           view.out[p] > get_package_usage_count(ecosystem, p)

(***************************************************************************)
(* Claims about the updates (checked under SpecUpdates)                    *)
(***************************************************************************)
\* the edges of the crates whose step to the latest version is breaking,
\* as (pkg_name, raw version, latest_version)
BreakingEdges ==
    {<<ecosystem.deps[j].pkg_name, ecosystem.deps[j].pkg_version,
       ecosystem.latest[i].latest_version>> :
         <<i, j>> \in {<<i, j>> \in (1..Len(ecosystem.latest))
                                     \X (1..Len(ecosystem.deps)) :
             /\ ecosystem.latest[i].source_type = Str.crate
             /\ ecosystem.deps[j].pkg_name = ecosystem.latest[i].pkg_name
             /\ is_breaking_change(
                    PyStr(ecosystem.deps[j].pkg_version),
                    PyStr(ecosystem.latest[i].latest_version)).val}}

\* C14: get_breaking_updates returns, and does not raise, for every
\* ecosystem, also when an edge has a version that does not parse; what it
\* returns are the edges of the crates whose step from the edge's raw
\* version to the latest version is breaking.
C14_EveryBreakingEdgeCollected ==
    view.op = "get_breaking_updates" =>
        /\ view.out.exc = "none"
        /\ {view.out.val[k] : k \in 1..Len(view.out.val)} = BreakingEdges

\* what get_breaking_updates does return where it returns: at most one
\* entry for a crate, which is a breaking edge of it
C14_ReturnsBreakingEdges ==
    (view.op = "get_breaking_updates" /\ view.out.exc = "none") =>
        /\ {view.out.val[k] : k \in 1..Len(view.out.val)} \subseteq BreakingEdges
        /\ \A k, l \in 1..Len(view.out.val) :
               view.out.val[k][1] = view.out.val[l][1] => k = l

\* a crate with a breaking edge and a higher edge that is not breaking is
\* left out of the result
BreakingEdgeLeftOut ==
    /\ view.op = "get_breaking_updates"
    /\ view.out.exc = "none"
    /\ view.out.val = <<>>
    /\ BreakingEdges # {}

\* a raw version that is a local, git or workspace sentinel
IsSentinel(v) ==
    \/ v \in {Str.LOCAL_, Str.WORKSPACE, Str.git}
    \/ LocalPrefixed(v)

\* the edges of a repository the safe-update set is said to hold
SafeEdges(repo_id) ==
    LET safe(dep) ==
            /\ dep.repo_id = repo_id
            /\ LatestInfo(ecosystem, dep.pkg_name).found
            /\ LatestInfo(ecosystem, dep.pkg_name).info.hub_status
                   = Str.outdated
            /\ ~is_breaking_change(
                    PyStr(dep.pkg_version),
                    PyStr(LatestInfo(ecosystem, dep.pkg_name).info
                              .latest_stable_version)).val
            /\ ~IsSentinel(dep.pkg_version)
        edges == SelectSeq(ecosystem.deps, safe)
    IN  [k \in 1..Len(edges) |->
            [name |-> edges[k].pkg_name, current |-> edges[k].pkg_version,
             stable |-> LatestInfo(ecosystem, edges[k].pkg_name).info
                            .latest_stable_version,
             dep_type |-> edges[k].dep_type]]

\* the id of the repository of a name
RepoIdOf(repo_name) ==
    (CHOOSE r \in {ecosystem.repos[i] : i \in 1..Len(ecosystem.repos)} :
         r.repo_name = repo_name).repo_id

\* C15: the safe-update set of a repository holds exactly its edges whose
\* package is 'outdated' and whose step from the raw version to the latest
\* stable version is not breaking, and no edge whose raw version is a local,
\* git or workspace sentinel.
C15_SafeUpdateSet ==
    /\ (view.op = "update_repo_dependencies" /\ view.out.found) =>
           view.out.safe_updates
               = ReturnedList(SafeEdges(RepoIdOf(view.out.repo_name)))
    /\ view.op = "update_ecosystem" =>
           \A name \in DOMAIN view.out :
               view.out[name] = ReturnedList(SafeEdges(RepoIdOf(name)))

\* no edge of the ecosystem declares the workspace sentinel
NoSentinelDeclared ==
    \A j \in 1..Len(ecosystem.deps) :
        ecosystem.deps[j].pkg_version \notin {Str.LOCAL_, Str.WORKSPACE, Str.git}

\* the safe-update set is the one of C15 where no edge declares one of the
\* sentinels LOCAL, WORKSPACE, git
C15_HoldsWithoutSentinels ==
    NoSentinelDeclared =>
        /\ (view.op = "update_repo_dependencies" /\ view.out.found) =>
               view.out.safe_updates
                   = ReturnedList(SafeEdges(RepoIdOf(view.out.repo_name)))
        /\ view.op = "update_ecosystem" =>
               \A name \in DOMAIN view.out :
                   view.out[name] = ReturnedList(SafeEdges(RepoIdOf(name)))

\* the entries of the safe-update lists the call made has collected
SafeEntries ==
    IF view.op = "update_repo_dependencies"
    THEN Range(view.out.safe_updates.val)
    ELSE IF view.op = "update_ecosystem"
    THEN UNION {Range(view.out[name].val) : name \in DOMAIN view.out}
    ELSE {}

\* the step of a safe-update entry raises the version: the current version
\* parses and the stable one is strictly greater
RaisesVersion(u) ==
    /\ parse_version(PyStr(u.current)).tag = "Version"
    /\ parse_version(PyStr(u.stable)).tag = "Version"
    /\ VersionLess(parse_version(PyStr(u.current)),
                   parse_version(PyStr(u.stable)))

\* C30: a safe update never lowers or merely repeats a version: for every
\* entry update_repo_dependencies or update_ecosystem puts in its
\* safe-update list, the current version of the edge parses and the latest
\* stable version is strictly greater than it.
C30_SafeUpdateRaisesVersion ==
    \A u \in SafeEntries : RaisesVersion(u)

\* every edge of the ecosystem declares a version, and one below the latest
\* stable version of its package
EveryEdgeBehindLatest ==
    \A j \in 1..Len(ecosystem.deps) :
        LET dep == ecosystem.deps[j]
            info == LatestInfo(ecosystem, dep.pkg_name).info
        IN  /\ parse_version(PyStr(dep.pkg_version)).tag = "Version"
            /\ VersionLess(parse_version(PyStr(dep.pkg_version)),
                           parse_version(PyStr(info.latest_stable_version)))

\* the safe updates raise the version where every edge is behind the latest
\* stable version of its package, and none of them makes a breaking step
C30_HoldsWhereEdgesAreBehind ==
    /\ EveryEdgeBehindLatest => \A u \in SafeEntries : RaisesVersion(u)
    /\ \A u \in SafeEntries :
           ~is_breaking_change(PyStr(u.current), PyStr(u.stable)).val

\* a safe update lowers the version of an edge that is ahead of the latest
\* stable version
SafeUpdateLowersVersion ==
    \E u \in SafeEntries :
        /\ parse_version(PyStr(u.current)).tag = "Version"
        /\ VersionLess(parse_version(PyStr(u.stable)),
                       parse_version(PyStr(u.current)))

\* a safe update rewrites an edge to the version it already declares
SafeUpdateRepeatsVersion ==
    \E u \in SafeEntries :
        /\ parse_version(PyStr(u.current)).tag = "Version"
        /\ VersionEq(parse_version(PyStr(u.stable)),
                     parse_version(PyStr(u.current)))

\* a safe update over an ecosystem whose edges are all behind
SafeUpdateOfEdgesBehind ==
    /\ EveryEdgeBehindLatest
    /\ SafeEntries # {}

(***************************************************************************)
(* Claims about the latest-version step (checked under SpecFetch)          *)
(***************************************************************************)
\* the records batch_fetch_latest_versions made
FetchedRecords ==
    IF view.op = "batch_fetch_latest_versions"
    THEN Range(view.out.latest_data) ELSE {}

\* C16: the hub status recorded for a package is 'current' when the hub's
\* version parses and is at or above the latest version found, 'outdated'
\* when it parses and is below it, 'gap' when the hub does not declare the
\* package, 'local' for a local, git or workspace package the hub declares;
\* no other value is recorded.
C16_HubStatusIsOneOfFour ==
    \A l \in FetchedRecords :
        LET declared == ~hub_info.none
                        /\ l.pkg_name \in DOMAIN hub_info.dependencies
            hub_ver == parse_version(PyStr(hub_info.dependencies[l.pkg_name]))
            latest_ver == parse_version(PyStr(l.latest_stable_version))
        IN  /\ l.hub_status \in {Str.current, Str.outdated, Str.gap, Str.local}
            /\ l.hub_status = Str.gap <=> ~declared
            /\ l.hub_status = Str.local <=>
                   declared /\ l.source_type # Str.crate
            /\ l.hub_status = Str.current =>
                   hub_ver.tag = "Version" /\ ~VersionLess(hub_ver, latest_ver)
            /\ l.hub_status = Str.outdated =>
                   hub_ver.tag = "Version" /\ VersionLess(hub_ver, latest_ver)

\* what holds of the four statuses of C16: 'gap' and 'local' are recorded as
\* said, 'current' for a hub version equal to the latest one and 'outdated'
\* for one below it
C16_FourStatusesAsRecorded ==
    \A l \in FetchedRecords :
        LET declared == ~hub_info.none
                        /\ l.pkg_name \in DOMAIN hub_info.dependencies
            hub_ver == parse_version(PyStr(hub_info.dependencies[l.pkg_name]))
            latest_ver == parse_version(PyStr(l.latest_version))
        IN  /\ l.hub_status = Str.gap <=> ~declared
            /\ l.hub_status = Str.local <=>
                   declared /\ l.source_type # Str.crate
            /\ l.hub_status = Str.current <=>
                   /\ declared /\ l.source_type = Str.crate
                   /\ hub_ver.tag = "Version" /\ VersionEq(hub_ver, latest_ver)
            /\ l.hub_status = Str.outdated <=>
                   /\ declared /\ l.source_type = Str.crate
                   /\ hub_ver.tag = "Version"
                   /\ VersionLess(hub_ver, latest_ver)

\* a hub version above the latest one is recorded as 'ahead'
AheadRecorded == \E l \in FetchedRecords : l.hub_status = Str.ahead

\* a hub version that does not parse is recorded as 'unknown'
UnknownRecorded == \E l \in FetchedRecords : l.hub_status = Str.unknown

\* C19: for a git package no crates.io lookup is issued, and its git status
\* is one of OK, AUTH_REQUIRED, NOT_FOUND, TIMEOUT, UNREACHABLE, NO_VERSION;
\* for a local or workspace package no lookup at all is issued.
C19_GitPackagesTakeTheGitPath ==
    \A l \in FetchedRecords :
        /\ l.source_type = Str.git =>
               /\ "crates.io" \notin view.out.lookups[l.pkg_name]
               /\ l.latest_version # <<>>
               /\ l.git_status \in {Str.OK, Str.AUTH_REQUIRED, Str.NOT_FOUND,
                                    Str.TIMEOUT, Str.UNREACHABLE,
                                    Str.NO_VERSION}
        /\ l.source_type \in {Str.local, Str.workspace} =>
               view.out.lookups[l.pkg_name] = {}

\* the lookups are as C19 says, and the git status is one of the six of C19
\* or GIT_ERROR
C19_NoRegistryLookupForGit ==
    \A l \in FetchedRecords :
        /\ l.source_type = Str.git =>
               /\ "crates.io" \notin view.out.lookups[l.pkg_name]
               /\ l.latest_version # <<>>
               /\ l.git_status \in {Str.OK, Str.AUTH_REQUIRED, Str.NOT_FOUND,
                                    Str.TIMEOUT, Str.UNREACHABLE,
                                    Str.NO_VERSION, Str.GIT_ERROR}
        /\ l.source_type \in {Str.local, Str.workspace} =>
               view.out.lookups[l.pkg_name] = {}

\* the dependency edges Phase 5 classified, each with its classification
ClassifiedEdges ==
    IF view.op = "generate_version_analysis"
    THEN {x \in [dep : Range(view.out.deps),
                 vm : Range(view.out.version_maps)] :
             x.dep.dep_id = x.vm.dep_id}
    ELSE {}

\* C25: the stability tag of an edge is 'local' when its raw version is a
\* local, git or workspace sentinel (LOCAL, WORKSPACE, git); otherwise it is
\* the risk level of the raw version: 'unknown', 'pre-release', 'unstable'
\* or 'stable'.
C25_StabilityTag ==
    \A x \in ClassifiedEdges :
        x.vm.version_state =
            IF IsSentinel(x.dep.pkg_version) THEN Str.local
            ELSE get_version_risk(x.dep.pkg_version)

\* what is recorded: the risk level of the raw version, which is 'unknown'
\* for the sentinels extraction writes
C25_TagIsRiskLevel ==
    \A x \in ClassifiedEdges :
        /\ x.vm.version_state = get_version_risk(x.dep.pkg_version)
        /\ x.dep.pkg_version \in {Str.LOCAL_, Str.WORKSPACE, Str.git} =>
               x.vm.version_state = Str.unknown
        /\ x.vm.version_state # Str.local

\* a workspace edge and a git edge were classified
SentinelEdgesClassified ==
    /\ \E x \in ClassifiedEdges : x.dep.pkg_version = Str.WORKSPACE
    /\ \E x \in ClassifiedEdges : x.dep.pkg_version = Str.git
    /\ \A x \in ClassifiedEdges : x.vm.version_state = Str.unknown

\* an edge with a version was classified by its risk level
VersionEdgeClassified ==
    \E x \in ClassifiedEdges : x.vm.version_state = Str.stable

\* the orders in which a discovery can return the manifests of the tree
DiscoveryOrders == Orderings(Range(manifests))

\* C26: the choice of a package's source is reproducible: whatever order
\* discovery returns the manifests in, a build over the same manifests
\* records the same source for every package.
C26_SourceChoiceReproducible ==
    view.op = "collect_unique_packages_with_sources" =>
        \A files \in DiscoveryOrders :
            Range(collect_unique_packages_with_sources(files))
                = Range(view.out)

\* the sources the manifests declare a package with
DeclaredSources(name) ==
    {parse_dependency_info(e).source_type :
         e \in {x \in Range(AllEntries(manifests)) :
                    x.name = name /\ Truthy(parse_dependency_info(x).version)}}

\* the choice is the same in every order when no package is declared with
\* two kinds of source
C26_HoldsWhenSourcesAgree ==
    (/\ view.op = "collect_unique_packages_with_sources"
     /\ \A name \in PackageNames : Cardinality(DeclaredSources(name)) <= 1) =>
        \A files \in DiscoveryOrders :
            {[pkg_name |-> p.pkg_name, source_type |-> p.source_type] :
                 p \in Range(collect_unique_packages_with_sources(files))}
            = {[pkg_name |-> p.pkg_name, source_type |-> p.source_type] :
                   p \in Range(view.out)}

\* the manifest found first decided: log is a git package in this order and
\* a local one in the other
SourceDependsOnOrder ==
    /\ view.op = "collect_unique_packages_with_sources"
    /\ Len(manifests) = 2
    /\ \E p \in Range(view.out) :
           /\ p.pkg_name = Pkg.log
           /\ p.source_type = Str.git
    /\ \E p \in Range(collect_unique_packages_with_sources(
                            <<manifests[2], manifests[1]>>)) :
           /\ p.pkg_name = Pkg.log
           /\ p.source_type = Str.local

(***************************************************************************)
(* Claims about the version functions (checked under SpecVer)              *)
(***************************************************************************)
\* a raw input is Absent when it does not yield a Version
Absent(x) == canonicalize_version(x).tag # "Version"

\* component i of a release, read as 0 beyond its end
Comp(v, i) == IF i <= Len(v.release) THEN v.release[i] ELSE 0

\* two versions that differ at most by trailing zero components
SameVersion(v, w) ==
    /\ v.pre = w.pre
    /\ \A i \in 1..(Len(v.release) + Len(w.release)) : Comp(v, i) = Comp(w, i)

\* what C7 requires of versions_equal on arguments a, b
EqualExpected(a, b) ==
    \/ Absent(a) /\ Absent(b)
    \/ /\ ~Absent(a)
       /\ ~Absent(b)
       /\ SameVersion(canonicalize_version(a), canonicalize_version(b))

\* what C8 requires of is_breaking_change on arguments from, to
BreakingExpected(from, to) ==
    /\ ~Absent(from)
    /\ ~Absent(to)
    /\ LET f == canonicalize_version(from)
           t == canonicalize_version(to)
       IN  Major(t) > Major(f) \/ (Major(f) = 0 /\ Minor(t) > Minor(f))

\* C7: versions_equal(a, b) returns true exactly when both inputs are Absent
\* or both parse to the same version up to trailing zero components, and
\* returns false whenever exactly one side is Absent.
C7_VersionsEqualContract ==
    verOp = "versions_equal" =>
        /\ verOut.exc = "none"
        /\ verOut.val = EqualExpected(verA, verB)

\* C7, as far as the code goes: the equality holds on every pair of inputs on
\* which canonicalize_version returns.
C7_HoldsWhereCanonicalizeReturns ==
    (verOp = "versions_equal" /\ verOut.exc = "none") =>
        verOut.val = EqualExpected(verA, verB)

\* C8: is_breaking_change(from, to) returns false if either side is Absent,
\* and otherwise returns true exactly when to.major > from.major, or
\* from.major = 0 and to.minor > from.minor.
C8_IsBreakingContract ==
    verOp = "is_breaking_change" =>
        /\ verOut.exc = "none"
        /\ verOut.val = BreakingExpected(verA, verB)

\* C8, as far as the code goes: the rule holds on every pair of inputs on
\* which the call returns.
C8_HoldsWhereCallReturns ==
    (verOp = "is_breaking_change" /\ verOut.exc = "none") =>
        verOut.val = BreakingExpected(verA, verB)

\* C9: canonicalize_version is total: for every input it returns a Version or
\* None and never raises; empty input, the literal 'path' and any input
\* containing 'workspace' give None.
C9_CanonicalizeTotal ==
    verOp = "canonicalize_version" =>
        /\ verOut.tag \in {"Version", "None"}
        /\ (\/ ~Truthy(verA)
            \/ verA.s = <<"p", "a", "t", "h">>
            \/ Contains(verA.s, <<"w", "o", "r", "k", "s", "p", "a", "c", "e">>))
           => verOut.tag = "None"

\* C9, as far as the code goes: the only inputs on which the call does not
\* return are the non-empty strings of quotes and whitespace alone.
C9_RaisesOnlyOnBlank ==
    verOp = "canonicalize_version" =>
        (verOut.tag = "IndexError"
            <=> (Truthy(verA) /\ \A i \in 1..Len(verA.s) :
                                    verA.s[i] \in {"\"", " ", "\t"}))

====
